---- MODULE Spec2Model ----
(***************************************************************************)
(* Model of the TAW task core: the Task entity (internal/task/task.go),    *)
(* the Manager (internal/task/manager.go), the naming collaborator         *)
(* (internal/claude/client.go) and the git driver the Manager calls.       *)
(* The shared resource is the agents directory; every operation is run by  *)
(* a short-lived process that owns nothing but its local variables.        *)
(***************************************************************************)
EXTENDS Integers, Sequences, FiniteSets, TLC

(* ------------------------------ bounds --------------------------------- *)
NumProcs == 2
MaxTasks == 2

(* -------------------------- program constants -------------------------- *)
MaxSuffix == 100
AttemptLimit == 100

Procs == 1..NumProcs

(* Names are sequences of string tokens, so that fmt.Sprintf("%s-%d") is a
   concatenation and a generated name can coincide with a suffixed one. *)
Digit == <<"0", "1", "2", "3", "4", "5", "6", "7", "8", "9">>

RECURSIVE Itoa(_)
Itoa(n) ==
    IF n < 0 THEN <<"-">> \o Itoa(0 - n)
    ELSE IF n < 10 THEN <<Digit[n + 1]>>
    ELSE Itoa(n \div 10) \o <<Digit[(n % 10) + 1]>>

BaseNames == {<<"fix-login">>, <<"fix-login", "-", "1">>}
Contents == {<<"c1">>}
Times == {<<"2", "6", "1", "1", "0", "4", "1", "2", "0", "0", "0", "1">>}
Pid(p) == 4000 + p

SuffixName(baseName, i) ==
    IF i > 0 THEN baseName \o <<"-">> \o Itoa(i) ELSE baseName

TimestampName(ts) == <<"task", "-">> \o ts
PidName(p) == <<"task", "-">> \o Itoa(Pid(p))

(* String helpers: file contents that the code parses are sequences of
   one-character strings. *)
IsSpace(c) == c \in {" ", "\n", "\t", "\r"}

RECURSIVE TrimLeft(_)
TrimLeft(s) ==
    IF s # <<>> /\ IsSpace(Head(s)) THEN TrimLeft(Tail(s)) ELSE s

RECURSIVE TrimRight(_)
TrimRight(s) ==
    IF s # <<>> /\ IsSpace(s[Len(s)]) THEN TrimRight(SubSeq(s, 1, Len(s) - 1))
    ELSE s

TrimSpace(s) == TrimRight(TrimLeft(s))

IsDigit(c) == \E k \in 1..10 : Digit[k] = c
DigitVal(c) == (CHOOSE k \in 1..10 : Digit[k] = c) - 1

RECURSIVE ScanDigits(_, _)
ScanDigits(s, acc) ==
    IF s # <<>> /\ IsDigit(Head(s))
    THEN ScanDigits(Tail(s), acc * 10 + DigitVal(Head(s)))
    ELSE acc

(* fmt.Sscanf(s, "%d", &n): optional sign, then at least one digit; what
   follows the digits is left unread. *)
Sscanf(s) ==
    LET signed == s # <<>> /\ Head(s) \in {"-", "+"}
        body == IF signed THEN Tail(s) ELSE s
    IN  IF body = <<>> \/ ~IsDigit(Head(body))
        THEN [ok |-> FALSE, val |-> 0]
        ELSE [ok |-> TRUE,
              val |-> IF signed /\ Head(s) = "-"
                      THEN 0 - ScanDigits(body, 0) ELSE ScanDigits(body, 0)]

WindowIDs == {<<"@", "1", "\n">>}
PRNumbers == {12}

(* ------------------------------ the disk ------------------------------- *)
NoFile == <<"<absent>">>
Unreadable == <<"<unreadable>">>

(* The directory <agentDir>/worktree.backup that recoverInvalidGit makes. *)
NoBackup == [present |-> FALSE, plain |-> FALSE, gitFile |-> "absent", files |-> {}]

(* A task directory: the task file, the lock directory and its window_id
   file, the .pr file, and the path <agentDir>/worktree: whether it exists,
   whether it is a regular file instead of a directory, its .git file, the
   files the agent wrote in it, and the backup directory next to it. *)
EmptyDir ==
    [content |-> NoFile, lock |-> FALSE, windowID |-> NoFile,
     pr |-> NoFile, worktree |-> FALSE, plain |-> FALSE,
     gitFile |-> "absent", files |-> {}, backup |-> NoBackup,
     head |-> "ref", merged |-> FALSE, review |-> "none"]

(* ------------------------------ Task ----------------------------------- *)
StatusPending == "pending"
StatusWorking == "working"
StatusWaiting == "waiting"
StatusDone == "done"
StatusCorrupted == "corrupted"

CorruptMissingWorktree == "missing_worktree"
CorruptNotInGit == "not_in_git"
CorruptInvalidGit == "invalid_git"
CorruptMissingBranch == "missing_branch"

New(name, agentDir) ==
    [Name |-> name, AgentDir |-> agentDir, WindowID |-> <<>>,
     Content |-> <<>>, Status |-> StatusPending, PRNumber |-> 0,
     CorruptedReason |-> ""]

NoTask == New(<<>>, <<>>)

VARIABLES
    agentsPresent,  \* the agents directory exists
    agents,         \* directory name -> what the task directory holds
    worktreeMode,   \* m.isGitRepo && m.config.WorkMode == worktree
    registry,       \* the working trees git has registered: path and branch
    branches,       \* branch names of the repository
    pc,             \* where each process is in its operation
    task,           \* the *Task each process holds
    loc,            \* locals of the operation a process is in
    held,           \* agent directories whose lock the process acquired
    windows,        \* ids of the windows open in the tmux session
    queue,          \* the backlog directory: its entry files and their contents
    trunk,          \* the project's own working tree: what is not committed
    last            \* the call that returned last: who, arguments, result

vars == <<agentsPresent, agents, worktreeMode, registry, branches,
          pc, task, loc, held, windows, queue, trunk, last>>

NoAgents == [d \in {} |-> EmptyDir]

(* The backlog directory before anything was queued: it does not exist.
   highest is not on disk: it is the greatest number an entry was ever
   given, 0 before the first. *)
(* The trunk working tree with nothing uncommitted: changes are the tracked
   files that differ from HEAD, untracked the files git does not know. *)
CleanTrunk == [changes |-> {}, untracked |-> {}]

NoQueue == [present |-> FALSE, files |-> [n \in {} |-> <<>>], highest |-> 0]

NoSeen == [present |-> FALSE, entry |-> EmptyDir]

NoLoc == [base |-> <<>>, i |-> 0, content |-> <<>>, nameErr |-> FALSE,
          ts |-> <<>>, name |-> <<>>, entries |-> {}, seen |-> NoSeen,
          seenAll |-> NoAgents, faults |-> {}, at |-> "", listFails |-> {},
          branchExists |-> FALSE, ghFails |-> {}, before |-> [files |-> {}, branches |-> {}],
          tasks |-> <<>>, nextNum |-> 0, stashHash |-> {},
          untrackedFiles |-> <<>>, caller |-> "", wins |-> {}]

Ret(op, ok, err, val) ==
    [op |-> op, ok |-> ok, err |-> err, val |-> val, proc |-> 0, loc |-> NoLoc]
NoRet == Ret("none", FALSE, "", NoTask)

DirExists(d) == agentsPresent /\ d \in DOMAIN agents

Init ==
    /\ agentsPresent = FALSE
    /\ agents = NoAgents
    /\ worktreeMode \in BOOLEAN
    /\ registry = {}
    /\ branches = {}
    /\ pc = [p \in Procs |-> "idle"]
    /\ task = [p \in Procs |-> NoTask]
    /\ loc = [p \in Procs |-> NoLoc]
    /\ held = [p \in Procs |-> {}]
    /\ windows = {}
    /\ queue = NoQueue
    /\ trunk = CleanTrunk
    /\ last = NoRet

(* The call of process p returns r; l holds its arguments and what it read. *)
Finish(p, r, l) ==
    /\ pc' = [pc EXCEPT ![p] = "idle"]
    /\ loc' = [loc EXCEPT ![p] = NoLoc]
    /\ last' = [r EXCEPT !.proc = p, !.loc = l]

(* App.Initialize: MkdirAll of the agents directory. *)
Initialize(p) ==
    /\ pc[p] = "idle"
    /\ ~agentsPresent
    /\ agentsPresent' = TRUE
    /\ UNCHANGED <<trunk, queue, windows, agents, worktreeMode, registry, branches, pc, task, loc,
                   held, last>>

(* What the disk holds for directory d when a call starts. *)
Seen(d) ==
    IF DirExists(d) THEN [present |-> TRUE, entry |-> agents[d]] ELSE NoSeen

(* ---------------------------- Handler Lock ------------------------------ *)
(* os.MkdirAll instead of os.Mkdir: an existing lock directory is a success. *)
CreateTabLockMkdirAll(p) ==
    LET d == task[p].AgentDir
        l == [NoLoc EXCEPT !.name = d, !.seen = Seen(d)]
    IN
    /\ pc[p] = "idle"
    /\ task[p] # NoTask
    /\ IF ~DirExists(d)
       THEN /\ Finish(p, Ret("CreateTabLock", FALSE, "failed to create tab-lock", NoTask), l)
            /\ UNCHANGED <<trunk, queue, windows, agents, held>>
       ELSE /\ agents' = [agents EXCEPT ![d].lock = TRUE]
            /\ held' = [held EXCEPT ![p] = @ \cup {d}]
            /\ Finish(p, Ret("CreateTabLock", TRUE, "", NoTask), l)
    /\ UNCHANGED <<trunk, queue, windows, agentsPresent, worktreeMode, registry, branches, task>>

(* A lock directory found in place is cleared before false is returned. *)
CreateTabLockClearing(p) ==
    LET d == task[p].AgentDir
        l == [NoLoc EXCEPT !.name = d, !.seen = Seen(d)]
    IN
    /\ pc[p] = "idle"
    /\ task[p] # NoTask
    /\ IF ~DirExists(d)
       THEN /\ Finish(p, Ret("CreateTabLock", FALSE, "failed to create tab-lock", NoTask), l)
            /\ UNCHANGED <<trunk, queue, windows, agents, held>>
       ELSE IF agents[d].lock
       THEN /\ Finish(p, Ret("CreateTabLock", FALSE, "", NoTask), l)
            /\ agents' = [agents EXCEPT ![d].windowID = NoFile]
            /\ UNCHANGED held
       ELSE /\ agents' = [agents EXCEPT ![d].lock = TRUE]
            /\ held' = [held EXCEPT ![p] = @ \cup {d}]
            /\ Finish(p, Ret("CreateTabLock", TRUE, "", NoTask), l)
    /\ UNCHANGED <<trunk, queue, windows, agentsPresent, worktreeMode, registry, branches, task>>

CreateTabLock(p) ==
    LET d == task[p].AgentDir
        l == [NoLoc EXCEPT !.name = d, !.seen = Seen(d)]
    IN
    /\ pc[p] = "idle"
    /\ task[p] # NoTask
    /\ IF ~DirExists(d)
       THEN /\ Finish(p, Ret("CreateTabLock", FALSE, "failed to create tab-lock", NoTask), l)
            /\ UNCHANGED <<trunk, queue, windows, agents, held>>
       ELSE IF agents[d].lock
       THEN /\ Finish(p, Ret("CreateTabLock", FALSE, "", NoTask), l)
            /\ UNCHANGED <<trunk, queue, windows, agents, held>>
       ELSE /\ agents' = [agents EXCEPT ![d].lock = TRUE]
            /\ held' = [held EXCEPT ![p] = @ \cup {d}]
            /\ Finish(p, Ret("CreateTabLock", TRUE, "", NoTask), l)
    /\ UNCHANGED <<trunk, queue, windows, agentsPresent, worktreeMode, registry, branches, task>>

(* os.Remove instead of os.RemoveAll: fails on a missing lock directory and
   on one that still holds the window_id file. *)
RemoveTabLockRmdir(p) ==
    LET d == task[p].AgentDir
        l == [NoLoc EXCEPT !.name = d, !.seen = Seen(d)]
    IN
    /\ pc[p] = "idle"
    /\ task[p] # NoTask
    /\ IF DirExists(d) /\ agents[d].lock /\ agents[d].windowID = NoFile
       THEN /\ agents' = [agents EXCEPT ![d].lock = FALSE]
            /\ held' = [held EXCEPT ![p] = @ \ {d}]
            /\ Finish(p, Ret("RemoveTabLock", TRUE, "", NoTask), l)
       ELSE /\ UNCHANGED <<trunk, queue, windows, agents, held>>
            /\ Finish(p, Ret("RemoveTabLock", FALSE, "remove failed", NoTask), l)
    /\ UNCHANGED <<trunk, queue, windows, agentsPresent, worktreeMode, registry, branches, task>>

RemoveTabLock(p) ==
    LET d == task[p].AgentDir IN
    /\ pc[p] = "idle"
    /\ task[p] # NoTask
    /\ agents' = IF DirExists(d)
                 THEN [agents EXCEPT ![d].lock = FALSE, ![d].windowID = NoFile]
                 ELSE agents
    /\ held' = [held EXCEPT ![p] = @ \ {d}]
    /\ Finish(p, Ret("RemoveTabLock", TRUE, "", NoTask),
              [NoLoc EXCEPT !.name = d, !.seen = Seen(d)])
    /\ UNCHANGED <<trunk, queue, windows, agentsPresent, worktreeMode, registry, branches, task>>

(* The window_id file written whether or not the lock directory exists. *)
SaveWindowIDAnyway(p, windowID) ==
    LET d == task[p].AgentDir
        l == [NoLoc EXCEPT !.name = d]
    IN
    /\ pc[p] = "idle"
    /\ task[p] # NoTask
    /\ task' = [task EXCEPT ![p].WindowID = windowID]
    /\ IF DirExists(d)
       THEN /\ agents' = [agents EXCEPT ![d].windowID = windowID]
            /\ Finish(p, Ret("SaveWindowID", TRUE, "", NoTask), l)
       ELSE /\ UNCHANGED agents
            /\ Finish(p, Ret("SaveWindowID", FALSE, "no such file or directory", NoTask), l)
    /\ UNCHANGED <<trunk, queue, windows, agentsPresent, worktreeMode, registry, branches, held>>

SaveWindowID(p, windowID) ==
    LET d == task[p].AgentDir
        l == [NoLoc EXCEPT !.name = d]
    IN
    /\ pc[p] = "idle"
    /\ task[p] # NoTask
    /\ task' = [task EXCEPT ![p].WindowID = windowID]
    /\ IF DirExists(d) /\ agents[d].lock
       THEN /\ agents' = [agents EXCEPT ![d].windowID = windowID]
            /\ Finish(p, Ret("SaveWindowID", TRUE, "", NoTask), l)
       ELSE /\ UNCHANGED agents
            /\ Finish(p, Ret("SaveWindowID", FALSE, "no such file or directory", NoTask), l)
    /\ UNCHANGED <<trunk, queue, windows, agentsPresent, worktreeMode, registry, branches, held>>

SavePRNumber(p, prNumber) ==
    LET d == task[p].AgentDir
        l == [NoLoc EXCEPT !.name = d]
    IN
    /\ pc[p] = "idle"
    /\ task[p] # NoTask
    /\ task' = [task EXCEPT ![p].PRNumber = prNumber]
    /\ IF DirExists(d)
       THEN /\ agents' = [agents EXCEPT ![d].pr = Itoa(prNumber)]
            /\ Finish(p, Ret("SavePRNumber", TRUE, "", NoTask), l)
       ELSE /\ UNCHANGED agents
            /\ Finish(p, Ret("SavePRNumber", FALSE, "no such file or directory", NoTask), l)
    /\ UNCHANGED <<trunk, queue, windows, agentsPresent, worktreeMode, registry, branches, held>>

(* ------------------------------ CreateTask ------------------------------ *)
(* claudeClient.GenerateTaskName: a validated name and no error, or the
   timestamp fallback together with the last error. *)
GenerateTaskName(ok, baseName, ts) ==
    IF ok THEN [name |-> baseName, err |-> FALSE]
    ELSE [name |-> TimestampName(ts), err |-> TRUE]

(* The name CreateTask goes on with (manager.go, lines 54-58). *)
ChosenName(p, gen) ==
    IF gen.err THEN PidName(p) ELSE gen.name

(* CreateTask up to the call of createTaskDirectory.  cap bounds the number
   of task directories; oks and names are the outcomes of the naming
   collaborator that are explored. *)
CreateTaskBegin(p, cap, oks, names) ==
    /\ pc[p] = "idle"
    /\ Cardinality(DOMAIN agents) < cap
    /\ \E content \in Contents, ok \in oks, baseName \in names, ts \in Times :
          LET gen == GenerateTaskName(ok, baseName, ts) IN
          loc' = [loc EXCEPT ![p] =
                    [NoLoc EXCEPT !.base = ChosenName(p, gen), !.i = 0,
                                  !.content = content, !.nameErr = gen.err,
                                  !.ts = IF gen.err THEN ts ELSE <<>>]]
    /\ pc' = [pc EXCEPT ![p] = "mkdir"]
    /\ UNCHANGED <<trunk, queue, windows, agentsPresent, agents, worktreeMode, registry, branches,
                   task, held, last>>

(* The loop condition of createTaskDirectory: i <= 100. *)
LoopContinues(i) == i <= MaxSuffix

(* The Name of the Task that CreateTask builds for the directory dirName it
   allocated from baseName: task := New(name, agentDir). *)
TaskName(baseName, dirName) == baseName

(* One iteration of the loop of createTaskDirectory: one os.Mkdir. *)
CreateTaskMkdir(p) ==
    LET i == loc[p].i
        name == SuffixName(loc[p].base, i)
    IN
    /\ pc[p] = "mkdir"
    /\ IF ~agentsPresent
       THEN /\ Finish(p, Ret("CreateTask", FALSE, "failed to create directory", NoTask), loc[p])
            /\ UNCHANGED <<trunk, queue, windows, agents, task>>
       ELSE IF name \notin DOMAIN agents
       THEN /\ agents' = [d \in DOMAIN agents \cup {name} |->
                            IF d = name THEN EmptyDir ELSE agents[d]]
            /\ task' = [task EXCEPT ![p] = New(TaskName(loc[p].base, name), name)]
            /\ pc' = [pc EXCEPT ![p] = "save"]
            /\ UNCHANGED <<trunk, queue, windows, loc, last>>
       ELSE /\ IF LoopContinues(i + 1)
               THEN /\ loc' = [loc EXCEPT ![p].i = i + 1]
                    /\ UNCHANGED <<trunk, queue, windows, pc, last>>
               ELSE Finish(p, Ret("CreateTask", FALSE,
                        "failed to create unique task directory after 100 attempts",
                        NoTask), [loc[p] EXCEPT !.i = i + 1])
            /\ UNCHANGED <<trunk, queue, windows, agents, task>>
    /\ UNCHANGED <<trunk, queue, windows, agentsPresent, worktreeMode, registry, branches, held>>

(* task.SaveContent, and task.Remove when it fails. *)
CreateTaskSave(p) ==
    LET d == task[p].AgentDir IN
    /\ pc[p] = "save"
    /\ IF DirExists(d)
       THEN /\ agents' = [agents EXCEPT ![d].content = loc[p].content]
            /\ task' = [task EXCEPT ![p].Content = loc[p].content]
            /\ Finish(p, Ret("CreateTask", TRUE, "",
                             [task[p] EXCEPT !.Content = loc[p].content]), loc[p])
       ELSE /\ UNCHANGED agents
            /\ task' = [task EXCEPT ![p] = NoTask]
            /\ Finish(p, Ret("CreateTask", FALSE, "failed to save task content", NoTask), loc[p])
    /\ UNCHANGED <<trunk, queue, windows, agentsPresent, worktreeMode, registry, branches, held>>

(* -------------------------- GetTask / ListTasks ------------------------- *)
LoadWindowID(e) ==
    IF e.lock /\ e.windowID # NoFile THEN TrimSpace(e.windowID) ELSE <<>>

LoadPRNumber(e) ==
    IF e.pr = NoFile THEN 0
    ELSE IF Sscanf(TrimSpace(e.pr)).ok THEN Sscanf(TrimSpace(e.pr)).val ELSE 0

(* GetTask answering from the Task the process already holds. *)
GetTaskOfCached(p, present, ag, name) ==
    IF ~(present /\ name \in DOMAIN ag)
    THEN Ret("GetTask", FALSE, "task not found", NoTask)
    ELSE IF ag[name].content = Unreadable
    THEN Ret("GetTask", FALSE, "failed to load task content", NoTask)
    ELSE IF task[p].AgentDir = name
    THEN Ret("GetTask", TRUE, "", task[p])
    ELSE Ret("GetTask", TRUE, "",
             [New(name, name) EXCEPT
                 !.Content = IF ag[name].content = NoFile THEN <<>>
                             ELSE ag[name].content,
                 !.WindowID = LoadWindowID(ag[name]),
                 !.PRNumber = LoadPRNumber(ag[name])])

(* GetTask without the os.IsNotExist exemption for the task file. *)
GetTaskOfStrict(p, present, ag, name) ==
    IF ~(present /\ name \in DOMAIN ag)
    THEN Ret("GetTask", FALSE, "task not found", NoTask)
    ELSE IF ag[name].content \in {Unreadable, NoFile}
    THEN Ret("GetTask", FALSE, "failed to load task content", NoTask)
    ELSE Ret("GetTask", TRUE, "",
             [New(name, name) EXCEPT
                 !.Content = ag[name].content,
                 !.WindowID = LoadWindowID(ag[name]),
                 !.PRNumber = LoadPRNumber(ag[name])])

(* What GetTask(name) returns to process p over the disk (present, ag). *)
GetTaskOf(p, present, ag, name) ==
    IF ~(present /\ name \in DOMAIN ag)
    THEN Ret("GetTask", FALSE, "task not found", NoTask)
    ELSE IF ag[name].content = Unreadable
    THEN Ret("GetTask", FALSE, "failed to load task content", NoTask)
    ELSE Ret("GetTask", TRUE, "",
             [New(name, name) EXCEPT
                 !.Content = IF ag[name].content = NoFile THEN <<>>
                             ELSE ag[name].content,
                 !.WindowID = LoadWindowID(ag[name]),
                 !.PRNumber = LoadPRNumber(ag[name])])

GetTask(p, name) ==
    LET r == GetTaskOf(p, agentsPresent, agents, name) IN
    /\ pc[p] = "idle"
    /\ task' = [task EXCEPT ![p] = r.val]
    /\ Finish(p, r, [NoLoc EXCEPT !.name = name,
                                  !.seen = IF DirExists(name)
                                           THEN [present |-> TRUE, entry |-> agents[name]]
                                           ELSE NoSeen])
    /\ UNCHANGED <<trunk, queue, windows, agentsPresent, agents, worktreeMode, registry, branches, held>>

(* ListTasks, first half: os.ReadDir of the agents directory. *)
ListTasksRead(p) ==
    /\ pc[p] = "idle"
    /\ IF ~agentsPresent
       THEN Finish(p, Ret("ListTasks", TRUE, "", {}), NoLoc)
       ELSE /\ loc' = [loc EXCEPT ![p] = [NoLoc EXCEPT !.entries = DOMAIN agents]]
            /\ pc' = [pc EXCEPT ![p] = "list"]
            /\ UNCHANGED last
    /\ UNCHANGED <<trunk, queue, windows, agentsPresent, agents, worktreeMode, registry, branches,
                   task, held>>

(* ListTasks returning the error of the first GetTask that fails. *)
ListResultFailing(p, entries, present, ag) ==
    IF \E x \in entries : ~GetTaskOf(p, present, ag, x).ok
    THEN Ret("ListTasks", FALSE, "failed to get task", {})
    ELSE Ret("ListTasks", TRUE, "",
             {GetTaskOf(p, present, ag, e).val : e \in entries})

(* The tasks ListTasks collects from the entries it read. *)
ListResult(p, entries, present, ag) ==
    Ret("ListTasks", TRUE, "",
        {GetTaskOf(p, present, ag, e).val :
            e \in {x \in entries : GetTaskOf(p, present, ag, x).ok}})

(* ListTasks, second half: GetTask on every entry, failures skipped. *)
ListTasksFinish(p) ==
    /\ pc[p] = "list"
    /\ Finish(p, ListResult(p, loc[p].entries, agentsPresent, agents),
              [loc[p] EXCEPT !.seenAll = agents])
    /\ UNCHANGED <<trunk, queue, windows, agentsPresent, agents, worktreeMode, registry, branches,
                   task, held>>

(* A task file that cannot be read (replaced by a directory, permissions
   changed): the case GetTask reports as "failed to load task content". *)
CorruptContent(d) ==
    /\ DirExists(d)
    /\ agents[d].content \notin {NoFile, Unreadable}
    /\ agents' = [agents EXCEPT ![d].content = Unreadable]
    /\ UNCHANGED <<trunk, queue, windows, agentsPresent, worktreeMode, registry, branches, pc, task,
                   loc, held, last>>

(* ------------------------------ git driver ------------------------------ *)
(* The part of the world the git commands read and write. *)
Git(present, ag, reg, br) ==
    [ok |-> TRUE, present |-> present, ag |-> ag, reg |-> reg, br |-> br]

Now == Git(agentsPresent, agents, registry, branches)

WorktreeExists(d) == DirExists(d) /\ agents[d].worktree

PathExists(g, d) == g.present /\ d \in DOMAIN g.ag /\ g.ag[d].worktree

(* An existing empty directory is the one path git accepts for a new tree. *)
PathOccupied(g, d) ==
    /\ PathExists(g, d)
    /\ \/ g.ag[d].plain
       \/ g.ag[d].gitFile # "absent"
       \/ g.ag[d].files # {}

Registered(reg, d) == \E w \in reg : w.path = d
CheckedOut(reg, b) == \E w \in reg : w.branch = b

(* Entries of a working tree, as paths relative to it; the .git file at its
   top is the gitFile field.  ClaudeLink is the symbolic link that
   SetupWorktree makes to the .claude directory of the taw directory. *)
ClaudeLink == <<".claude">>
WorkFile == <<"work">>
NestedFile == <<"sub", "/", "work">>
NestedMarker == <<"sub", "/", ".git">>
FileNames == {ClaudeLink, WorkFile, NestedFile, NestedMarker}

NoTree(e) ==
    [e EXCEPT !.worktree = FALSE, !.plain = FALSE, !.gitFile = "absent",
              !.files = {}]

FreshTree(e) ==
    [e EXCEPT !.worktree = TRUE, !.plain = FALSE, !.gitFile = "valid",
              !.files = {}, !.head = "ref"]

(* os.RemoveAll(worktreeDir) *)
RemoveAllTree(ag, d) ==
    IF d \in DOMAIN ag THEN [ag EXCEPT ![d] = NoTree(@)] ELSE ag

(* git worktree add -b <branch> <path>: refuses an existing branch, an
   existing path and a path that is still registered. *)
WorktreeAddFails(d, branch) ==
    \/ branch \in branches
    \/ PathOccupied(Now, d)
    \/ Registered(registry, d)
    \/ CheckedOut(registry, branch)

(* git worktree add [-b <branch>] <path> [<branch>].  With -b the branch is
   made first, at the head of trunk and so merged into it, and stays when
   the path is then refused; without -b the branch
   must exist and be checked out nowhere.  fault: the command fails for a
   reason of its own (timeout, lock file) and changes nothing. *)
WorktreeAdd(g, d, branch, createBranch, fault) ==
    LET br1 == IF createBranch THEN g.br \cup {branch} ELSE g.br
        ag1 == IF createBranch /\ branch \in DOMAIN g.ag
               THEN [g.ag EXCEPT ![branch].merged = TRUE] ELSE g.ag
    IN
    IF fault THEN [g EXCEPT !.ok = FALSE]
    ELSE IF createBranch /\ branch \in g.br THEN [g EXCEPT !.ok = FALSE]
    ELSE IF ~createBranch /\ (branch \notin g.br \/ CheckedOut(g.reg, branch))
    THEN [g EXCEPT !.ok = FALSE]
    ELSE IF \/ PathOccupied(g, d)
            \/ Registered(g.reg, d)
            \/ CheckedOut(g.reg, branch)
    THEN [g EXCEPT !.ok = FALSE, !.br = br1, !.ag = ag1]
    ELSE [ok |-> TRUE,
          present |-> TRUE,
          ag |-> [x \in DOMAIN g.ag \cup {d} |->
                    IF x = d
                    THEN FreshTree(IF d \in DOMAIN g.ag THEN ag1[d] ELSE EmptyDir)
                    ELSE ag1[x]],
          reg |-> g.reg \cup {[path |-> d, branch |-> branch]},
          br |-> br1]

(* git worktree remove --force <path>: the path must be registered and, when
   it exists, be a directory with a valid .git file. *)
WorktreeRemove(g, d, fault) ==
    IF \/ fault
       \/ ~Registered(g.reg, d)
       \/ PathExists(g, d) /\ (g.ag[d].plain \/ g.ag[d].gitFile # "valid")
    THEN [g EXCEPT !.ok = FALSE]
    ELSE [g EXCEPT !.ag = RemoveAllTree(g.ag, d),
                   !.reg = {w \in g.reg : w.path # d}]

(* git worktree prune: forget the registered trees whose .git file is gone. *)
Pruned(reg, present, ag) ==
    {w \in reg : /\ present
                 /\ w.path \in DOMAIN ag
                 /\ ag[w.path].worktree
                 /\ ~ag[w.path].plain
                 /\ ag[w.path].gitFile # "absent"}

WorktreePrune(g, fault) ==
    IF fault THEN [g EXCEPT !.ok = FALSE]
    ELSE [g EXCEPT !.reg = Pruned(g.reg, g.present, g.ag)]

(* git branch -D refuses a branch that a registered working tree has checked out. *)
BranchDeleted(br, reg, b) ==
    IF \E w \in reg : w.branch = b THEN br ELSE br \ {b}

BranchDelete(g, b, fault) ==
    IF fault \/ b \notin g.br \/ CheckedOut(g.reg, b)
    THEN [g EXCEPT !.ok = FALSE]
    ELSE [g EXCEPT !.br = BranchDeleted(g.br, g.reg, b)]

BranchExists(g, b) == b \in g.br

(* The world after the git command that produced g. *)
Apply(g) ==
    /\ agentsPresent' = g.present
    /\ agents' = g.ag
    /\ registry' = g.reg
    /\ branches' = g.br

(* ------------------------ SetupWorktree / CleanupTask ------------------- *)
(* Files of the trunk working tree: a tracked file that was edited and a
   file git does not track. *)
TrackedFile == <<"main.go">>
UntrackedFile == <<"notes">>

(* git stash create: a commit object holding the uncommitted changes to
   tracked files, and no output when there are none; the working tree, the
   index and the refs stay as they are. An error is read as no stash. *)
StashCreate(t, fault) == IF fault THEN {} ELSE t.changes

(* git ls-files --others --exclude-standard, split into lines. *)
RECURSIVE Lines(_)
Lines(files) ==
    IF files = {} THEN <<>>
    ELSE LET f == CHOOSE x \in files : TRUE
         IN  <<f>> \o Lines(files \ {f})
GetUntrackedFiles(t, fault) == IF fault THEN <<>> ELSE Lines(t.untracked)

(* git stash apply <hash>, run in the working tree of directory d. *)
StashApply(ag, d, stashHash) ==
    IF d \in DOMAIN ag /\ ag[d].worktree /\ ~ag[d].plain /\ ag[d].gitFile = "valid"
    THEN [ag EXCEPT ![d].files = @ \cup stashHash]
    ELSE ag

(* git.CopyUntrackedFiles: file by file, stopping at the first that cannot
   be read from the project directory. *)
RECURSIVE CopyUntrackedFiles(_, _, _, _)
CopyUntrackedFiles(files, t, ag, d) ==
    IF files = <<>> \/ Head(files) \notin t.untracked THEN ag
    ELSE CopyUntrackedFiles(Tail(files), t,
                            [ag EXCEPT ![d].worktree = TRUE,
                                       ![d].files = @ \cup {Head(files)}], d)

(* The call of SetupWorktree returns r: to whoever called it directly, or
   into handle-task, which goes on to the window or gives the lock back. *)
SetupReturns(p, r) ==
    IF loc[p].caller = "handle-task"
    THEN /\ pc' = [pc EXCEPT ![p] = IF r.ok THEN "handle_window" ELSE "handle_unlock"]
         /\ UNCHANGED <<loc, last>>
    ELSE Finish(p, r, loc[p])

(* A direct call of SetupWorktree: outside worktree mode it returns nil at
   once. *)
SetupWorktree(p) ==
    LET d == task[p].AgentDir
        l == [NoLoc EXCEPT !.name = d]
    IN
    /\ pc[p] = "idle"
    /\ task[p] # NoTask
    /\ IF ~worktreeMode
       THEN Finish(p, Ret("SetupWorktree", TRUE, "", NoTask), l)
       ELSE /\ loc' = [loc EXCEPT ![p] = l]
            /\ pc' = [pc EXCEPT ![p] = "setup_stash"]
            /\ UNCHANGED last
    /\ UNCHANGED <<trunk, queue, windows, agentsPresent, agents, worktreeMode,
                   registry, branches, task, held>>

SetupStashPush(p) ==
    /\ pc[p] = "setup_stash"
    /\ loc' = [loc EXCEPT ![p].stashHash = StashCreate(trunk, FALSE),
                          ![p].at = "stash"]
    /\ trunk' = [trunk EXCEPT !.changes = {}]
    /\ pc' = [pc EXCEPT ![p] = "setup_untracked"]
    /\ UNCHANGED <<queue, windows, agentsPresent, agents, worktreeMode,
                   registry, branches, task, held, last>>

(* StashCreate. *)
SetupStash(p) ==
    /\ pc[p] = "setup_stash"
    /\ \E fault \in BOOLEAN :
          loc' = [loc EXCEPT ![p].stashHash = StashCreate(trunk, fault),
                             ![p].at = "stash"]
    /\ pc' = [pc EXCEPT ![p] = "setup_untracked"]
    /\ UNCHANGED <<trunk, queue, windows, agentsPresent, agents, worktreeMode,
                   registry, branches, task, held, last>>

(* GetUntrackedFiles. *)
SetupUntracked(p) ==
    /\ pc[p] = "setup_untracked"
    /\ \E fault \in BOOLEAN :
          loc' = [loc EXCEPT ![p].untrackedFiles = GetUntrackedFiles(trunk, fault),
                             ![p].at = "untracked"]
    /\ pc' = [pc EXCEPT ![p] = "setup_add"]
    /\ UNCHANGED <<trunk, queue, windows, agentsPresent, agents, worktreeMode,
                   registry, branches, task, held, last>>

(* WorktreeAdd on a new branch named after the task; its failure ends the
   call. *)
SetupAdd(p) ==
    LET d == task[p].AgentDir
        b == task[p].Name
    IN
    /\ pc[p] = "setup_add"
    /\ \E fault \in BOOLEAN :
          LET g == WorktreeAdd(Now, d, b, TRUE, fault) IN
          /\ Apply(g)
          /\ IF g.ok
             THEN /\ pc' = [pc EXCEPT ![p] = "setup_apply"]
                  /\ loc' = [loc EXCEPT ![p].at = "add"]
                  /\ UNCHANGED last
             ELSE SetupReturns(p, Ret("SetupWorktree", FALSE,
                                      "failed to create worktree", NoTask))
    /\ UNCHANGED <<trunk, queue, windows, worktreeMode, task, held>>

(* StashApply in the new tree, when a stash was made. *)
SetupApply(p) ==
    LET d == task[p].AgentDir IN
    /\ pc[p] = "setup_apply"
    /\ agents' = IF loc[p].stashHash # {}
                 THEN StashApply(agents, d, loc[p].stashHash) ELSE agents
    /\ pc' = [pc EXCEPT ![p] = "setup_copy"]
    /\ loc' = [loc EXCEPT ![p].at = "apply"]
    /\ UNCHANGED <<trunk, queue, windows, agentsPresent, worktreeMode, registry,
                   branches, task, held, last>>

(* CopyUntrackedFiles, the .claude link, and the return of nil. *)
SetupCopy(p) ==
    LET d == task[p].AgentDir
        copied == IF DirExists(d)
                  THEN CopyUntrackedFiles(loc[p].untrackedFiles, trunk, agents, d)
                  ELSE agents
    IN
    /\ pc[p] = "setup_copy"
    /\ agents' = IF DirExists(d) /\ copied[d].worktree /\ ~copied[d].plain
                 THEN [copied EXCEPT ![d].files = @ \cup {ClaudeLink}]
                 ELSE copied
    /\ SetupReturns(p, Ret("SetupWorktree", TRUE, "", NoTask))
    /\ UNCHANGED <<trunk, queue, windows, agentsPresent, worktreeMode, registry,
                   branches, task, held>>

(* task.Remove: os.RemoveAll of the agent directory. *)
Remove(ag, d) == [x \in DOMAIN ag \ {d} |-> ag[x]]

(* task.Remove with os.Remove: a directory that is already gone is an error. *)
CleanupRecordRemoveOnly(p, d, l) ==
    IF DirExists(d)
    THEN /\ agents' = Remove(agents, d)
         /\ held' = [held EXCEPT ![p] = @ \ {d}]
         /\ Finish(p, Ret("CleanupTask", TRUE, "", NoTask), l)
    ELSE /\ Finish(p, Ret("CleanupTask", FALSE, "remove failed", NoTask),
                   [l EXCEPT !.faults = @ \cup {"record"}])
         /\ UNCHANGED <<agents, held>>

(* CleanupTask, last statement: return task.Remove().  l: the locals of the
   call.  Removing a directory that exists can fail; os.RemoveAll of a path
   that does not exist returns nil. *)
CleanupRecord(p, d, l) ==
    \E fault \in {FALSE, DirExists(d)} :
        IF fault
        THEN /\ Finish(p, Ret("CleanupTask", FALSE, "remove failed", NoTask),
                       [l EXCEPT !.faults = @ \cup {"record"}])
             /\ UNCHANGED <<agents, held>>
        ELSE /\ agents' = Remove(agents, d)
             /\ held' = [held EXCEPT ![p] = @ \ {d}]
             /\ Finish(p, Ret("CleanupTask", TRUE, "", NoTask), l)

(* CleanupTask without the os.RemoveAll fallback after a failed WorktreeRemove. *)
CleanupTaskNoFallback(p) ==
    LET d == task[p].AgentDir
        l == [NoLoc EXCEPT !.name = d]
    IN
    /\ pc[p] = "idle"
    /\ task[p] # NoTask
    /\ worktreeMode
    /\ IF PathExists(Now, d)
       THEN \E fault \in BOOLEAN :
              LET g == WorktreeRemove(Now, d, fault)
              IN /\ Apply(g)
                 /\ loc' = [loc EXCEPT ![p] =
                              [l EXCEPT !.faults = IF fault THEN {"remove"} ELSE {}]]
       ELSE /\ UNCHANGED <<agentsPresent, agents, registry, branches>>
            /\ loc' = [loc EXCEPT ![p] = l]
    /\ pc' = [pc EXCEPT ![p] = "cleanup_prune"]
    /\ UNCHANGED <<trunk, queue, windows, worktreeMode, task, held, last>>

(* CleanupTask up to the removal of the working tree; outside worktree mode
   the whole call. *)
CleanupTask(p) ==
    LET d == task[p].AgentDir
        l == [NoLoc EXCEPT !.name = d]
    IN
    /\ pc[p] = "idle"
    /\ task[p] # NoTask
    /\ IF worktreeMode
       THEN /\ IF PathExists(Now, d)
               THEN \E fault \in BOOLEAN :
                      LET g == WorktreeRemove(Now, d, fault)
                      IN /\ IF g.ok
                            THEN Apply(g)
                            ELSE /\ agents' = RemoveAllTree(agents, d)
                                 /\ UNCHANGED <<agentsPresent, registry, branches>>
                         /\ loc' = [loc EXCEPT ![p] =
                                      [l EXCEPT !.faults = IF fault THEN {"remove"} ELSE {}]]
               ELSE /\ UNCHANGED <<agentsPresent, agents, registry, branches>>
                    /\ loc' = [loc EXCEPT ![p] = l]
            /\ pc' = [pc EXCEPT ![p] = "cleanup_prune"]
            /\ UNCHANGED <<held, last>>
       ELSE /\ CleanupRecord(p, d, l)
            /\ UNCHANGED <<agentsPresent, registry, branches>>
    /\ UNCHANGED <<trunk, queue, windows, worktreeMode, task>>

(* CleanupTask returning the error of WorktreePrune. *)
CleanupPruneReturning(p) ==
    /\ pc[p] = "cleanup_prune"
    /\ \E fault \in BOOLEAN :
         /\ Apply(WorktreePrune(Now, fault))
         /\ IF fault
            THEN Finish(p, Ret("CleanupTask", FALSE, "prune failed", NoTask),
                        [loc[p] EXCEPT !.faults = @ \cup {"prune"}])
            ELSE /\ pc' = [pc EXCEPT ![p] = "cleanup_branch"]
                 /\ UNCHANGED <<loc, last>>
    /\ UNCHANGED <<trunk, queue, windows, worktreeMode, task, held>>

(* CleanupTask: m.gitClient.WorktreePrune, its error ignored. *)
CleanupPrune(p) ==
    /\ pc[p] = "cleanup_prune"
    /\ \E fault \in BOOLEAN :
         /\ Apply(WorktreePrune(Now, fault))
         /\ loc' = [loc EXCEPT ![p].faults = IF fault THEN @ \cup {"prune"} ELSE @]
    /\ pc' = [pc EXCEPT ![p] = "cleanup_branch"]
    /\ UNCHANGED <<trunk, queue, windows, worktreeMode, task, held, last>>

(* CleanupTask: BranchDelete when BranchExists, its error ignored. *)
CleanupBranch(p) ==
    LET b == task[p].Name
    IN
    /\ pc[p] = "cleanup_branch"
    /\ IF BranchExists(Now, b)
       THEN \E fault \in BOOLEAN :
              /\ Apply(BranchDelete(Now, b, fault))
              /\ loc' = [loc EXCEPT ![p].faults = IF fault THEN @ \cup {"branch"} ELSE @]
       ELSE UNCHANGED <<agentsPresent, agents, registry, branches, loc>>
    /\ pc' = [pc EXCEPT ![p] = "cleanup_record"]
    /\ UNCHANGED <<trunk, queue, windows, worktreeMode, task, held, last>>

(* CleanupTask in worktree mode: return task.Remove(). *)
CleanupRemove(p) ==
    /\ pc[p] = "cleanup_record"
    /\ CleanupRecord(p, task[p].AgentDir, loc[p])
    /\ UNCHANGED <<trunk, queue, windows, agentsPresent, worktreeMode, registry, branches, task>>

(* The process is killed in the middle of CleanupTask: what it was doing
   stays on record, the process never runs again. *)
Kill(p) ==
    /\ pc[p] \in {"cleanup_prune", "cleanup_branch", "cleanup_record"}
    /\ pc' = [pc EXCEPT ![p] = "killed"]
    /\ loc' = [loc EXCEPT ![p].at = pc[p]]
    /\ task' = [task EXCEPT ![p] = NoTask]
    /\ held' = [held EXCEPT ![p] = {}]
    /\ UNCHANGED <<trunk, queue, windows, agentsPresent, agents, worktreeMode, registry,
                   branches, last>>

(* ------------------------- corruption diagnosis ------------------------- *)
ProjectDir == <<"proj">>
AgentPath(d) == ProjectDir \o <<"/", ".taw", "/", "agents", "/">> \o d

(* Task.GetWorktreeDir: filepath.Join(t.AgentDir, "worktree") *)
GetWorktreeDir(d) == AgentPath(d) \o <<"/", "worktree">>

(* filepath.Base: what follows the last separator. *)
Base(path) ==
    LET i == CHOOSE k \in 0..Len(path) :
                /\ k = 0 \/ path[k] = "/"
                /\ \A j \in (k + 1)..Len(path) : path[j] # "/"
    IN SubSeq(path, i + 1, Len(path))

(* strings.HasSuffix *)
HasSuffix(str, suffix) ==
    /\ Len(suffix) <= Len(str)
    /\ SubSeq(str, Len(str) - Len(suffix) + 1, Len(str)) = suffix

(* gitClient.WorktreeList: the main working tree and the registered ones. *)
WorktreeList(g) ==
    {[Path |-> ProjectDir, Branch |-> <<"main">>]}
        \cup {[Path |-> GetWorktreeDir(w.path), Branch |-> w.branch] : w \in g.reg}

(* checkWorktreeStatus reporting a missing directory whatever the branch. *)
checkWorktreeStatusAnyBranch(g, t, listFails) ==
    LET d == t.AgentDir
        worktreeDir == GetWorktreeDir(d)
    IN
    IF ~PathExists(g, d) THEN CorruptMissingWorktree
    ELSE IF g.ag[d].plain THEN CorruptInvalidGit
    ELSE IF g.ag[d].gitFile = "absent" THEN CorruptInvalidGit
    ELSE IF listFails THEN CorruptNotInGit
    ELSE IF ~\E wt \in WorktreeList(g) :
                \/ wt.Path = worktreeDir
                \/ HasSuffix(wt.Path, <<"/">> \o Base(worktreeDir))
    THEN CorruptNotInGit
    ELSE IF ~BranchExists(g, t.Name) THEN CorruptMissingBranch
    ELSE ""

(* checkWorktreeStatus over the world g for task t; listFails: WorktreeList
   returns an error. *)
checkWorktreeStatus(g, t, listFails) ==
    LET d == t.AgentDir
        worktreeDir == GetWorktreeDir(d)
    IN
    IF ~PathExists(g, d)
    THEN IF BranchExists(g, t.Name) THEN CorruptMissingWorktree ELSE ""
    ELSE IF g.ag[d].plain THEN CorruptInvalidGit
    ELSE IF g.ag[d].gitFile = "absent" THEN CorruptInvalidGit
    ELSE IF listFails THEN CorruptNotInGit
    ELSE IF ~\E wt \in WorktreeList(g) :
                \/ wt.Path = worktreeDir
                \/ HasSuffix(wt.Path, <<"/">> \o Base(worktreeDir))
    THEN CorruptNotInGit
    ELSE IF ~BranchExists(g, t.Name) THEN CorruptMissingBranch
    ELSE ""

(* The tasks FindCorruptedTasks returns over the world g; failing: the tasks
   for which WorktreeList returns an error. *)
Corrupted(p, g, failing) ==
    LET tasks == IF g.present
                 THEN ListResult(p, DOMAIN g.ag, g.present, g.ag).val
                 ELSE {}
    IN {[t EXCEPT !.Status = StatusCorrupted,
                  !.CorruptedReason = checkWorktreeStatus(g, t, t.AgentDir \in failing)] :
           t \in {x \in tasks : checkWorktreeStatus(g, x, x.AgentDir \in failing) # ""}}

FindCorruptedTasks(p) ==
    /\ pc[p] = "idle"
    /\ IF ~worktreeMode
       THEN Finish(p, Ret("FindCorruptedTasks", TRUE, "", {}), NoLoc)
       ELSE \E failing \in SUBSET DOMAIN agents :
              Finish(p, Ret("FindCorruptedTasks", TRUE, "",
                            Corrupted(p, Now, failing)),
                     [NoLoc EXCEPT !.listFails = failing])
    /\ UNCHANGED <<trunk, queue, windows, agentsPresent, agents, worktreeMode, registry,
                   branches, task, held>>

(* --------------------------- completion detector ----------------------- *)
MainBranch == <<"main">>

(* The review request that a task has opened on the review platform. *)
PRNumber == 12

(* The lines of `git branch --merged <into>`: every branch whose commits
   are all in <into>, the current branch marked "* ", a branch checked out
   in a linked working tree marked "+ ", the others indented. *)
MergedListing(g) ==
    {<<"*", " ">> \o MainBranch}
    \cup {(IF CheckedOut(g.reg, b) THEN <<"+", " ">> ELSE <<" ", " ">>) \o b :
             b \in {x \in g.br : x \in DOMAIN g.ag /\ g.ag[x].merged}}

(* strings.TrimPrefix(line, "*") *)
TrimStar(line) ==
    IF line # <<>> /\ Head(line) = "*" THEN Tail(line) ELSE line

(* gitClient.BranchMerged: a line of the listing that is the branch name
   after TrimPrefix and TrimSpace; false when git fails. *)
BranchMerged(g, branch, fails) ==
    /\ ~fails
    /\ \E line \in MergedListing(g) : TrimSpace(TrimStar(line)) = branch

(* ghClient.IsPRMerged *)
IsPRMerged(e, prNumber, fails) ==
    [ok |-> ~fails /\ prNumber = PRNumber /\ e.review # "none",
     merged |-> e.review = "merged"]

(* isTaskMerged looking at the branch only. *)
isTaskMergedBranchOnly(g, t, ghFails, gitFails) ==
    BranchMerged(g, t.Name, gitFails)

(* isTaskMerged: the merged review request, else the merged branch. *)
isTaskMerged(g, t, ghFails, gitFails) ==
    LET e == g.ag[t.AgentDir]
        prNumber == LoadPRNumber(e)
        pr == IsPRMerged(e, prNumber, ghFails)
    IN \/ /\ e.pr # NoFile
          /\ e.pr # Unreadable
          /\ Sscanf(TrimSpace(e.pr)).ok
          /\ prNumber > 0
          /\ pr.ok
          /\ pr.merged
       \/ BranchMerged(g, t.Name, gitFails)

(* The tasks FindMergedTasks returns over the world g. *)
Merged(p, g, ghFailing, gitFailing) ==
    LET tasks == IF g.present
                 THEN ListResult(p, DOMAIN g.ag, g.present, g.ag).val
                 ELSE {}
    IN {[t EXCEPT !.Status = StatusDone] :
           t \in {x \in tasks : isTaskMerged(g, x, x.AgentDir \in ghFailing,
                                              x.AgentDir \in gitFailing)}}

(* FindMergedTasks, in a git repository. *)
FindMergedTasks(p) ==
    /\ pc[p] = "idle"
    /\ worktreeMode
    /\ \E ghFailing \in SUBSET DOMAIN agents, gitFailing \in SUBSET DOMAIN agents :
         Finish(p, Ret("FindMergedTasks", TRUE, "",
                       Merged(p, Now, ghFailing, gitFailing)),
                [NoLoc EXCEPT !.ghFails = ghFailing, !.listFails = gitFailing])
    /\ UNCHANGED <<trunk, queue, windows, agentsPresent, agents, worktreeMode, registry,
                   branches, task, held>>

(* ------------------------------ RecoverTask ---------------------------- *)
(* What is at the working tree path of a directory entry, as a backup
   directory would hold it, and the other way round. *)
TreeOf(e) ==
    [present |-> e.worktree, plain |-> e.plain, gitFile |-> e.gitFile,
     files |-> e.files]

WithTree(e, t) ==
    [e EXCEPT !.worktree = t.present, !.plain = t.plain,
              !.gitFile = t.gitFile, !.files = t.files]

(* os.Rename(src, dst) works when src exists and dst is absent, an empty
   directory under a directory, or a file under a file. *)
RenameWorks(src, dst) ==
    /\ src.present
    /\ \/ ~dst.present
       \/ ~src.plain /\ ~dst.plain /\ dst.gitFile = "absent" /\ dst.files = {}
       \/ src.plain /\ dst.plain

(* os.Rename(worktreeDir, backupDir) *)
RenameToBackup(ag, d) ==
    [ag EXCEPT ![d] = [NoTree(@) EXCEPT !.backup = TreeOf(ag[d])]]

(* os.Rename(backupDir, worktreeDir) *)
RenameFromBackup(ag, d) ==
    [ag EXCEPT ![d] = [WithTree(@, ag[d].backup) EXCEPT !.backup = NoBackup]]

(* The files under the working tree path of directory d and in its
   backup. *)
OnDisk(ag, d) ==
    IF d \in DOMAIN ag
    THEN (IF ag[d].worktree THEN ag[d].files ELSE {})
         \cup (IF ag[d].backup.present THEN ag[d].backup.files ELSE {})
    ELSE {}

(* The locals of a call of RecoverTask on task t, with a record of the
   files and branches that the call found. *)
RecoverLoc(t) ==
    [NoLoc EXCEPT !.name = t.AgentDir,
                  !.before = [files |-> OnDisk(agents, t.AgentDir),
                              branches |-> branches]]

(* A call of RecoverTask returns; the command that made it ends. *)
RecoverReturns(p, ok, err) ==
    /\ Finish(p, Ret("RecoverTask", ok, err, task[p]), loc[p])
    /\ task' = [task EXCEPT ![p] = NoTask]

RecoverFails(p, err, fault) ==
    /\ Finish(p, Ret("RecoverTask", FALSE, err, task[p]),
              [loc[p] EXCEPT !.faults = @ \cup fault])
    /\ task' = [task EXCEPT ![p] = NoTask]

(* recoverMissingWorktree making the directory again without git. *)
recoverMissingWorktreeMkdir(p, t) ==
    /\ DirExists(t.AgentDir)
    /\ agents' = [agents EXCEPT ![t.AgentDir].worktree = TRUE]
    /\ Finish(p, Ret("RecoverTask", TRUE, "", t), RecoverLoc(t))
    /\ UNCHANGED <<agentsPresent, registry, branches, task>>

(* recoverMissingWorktree: WorktreeAdd on the existing branch. *)
recoverMissingWorktree(p, t) ==
    \E fault \in BOOLEAN :
        LET g == WorktreeAdd(Now, t.AgentDir, t.Name, FALSE, fault)
            l == [RecoverLoc(t) EXCEPT
                               !.faults = IF fault THEN {"add"} ELSE {}]
        IN /\ Apply(g)
           /\ Finish(p, Ret("RecoverTask", g.ok,
                            IF g.ok THEN "" ELSE "failed to recreate worktree", t), l)
           /\ UNCHANGED task

(* recoverNotInGit, first statement: os.RemoveAll(worktreeDir). *)
recoverNotInGit(p, t) ==
    \E fault \in {FALSE, WorktreeExists(t.AgentDir)} :
        LET l == RecoverLoc(t) IN
        IF fault
        THEN /\ Finish(p, Ret("RecoverTask", FALSE, "failed to remove directory", t),
                       [l EXCEPT !.faults = {"remove"}])
             /\ UNCHANGED <<agentsPresent, agents, registry, branches, task>>
        ELSE /\ agents' = RemoveAllTree(agents, t.AgentDir)
             /\ task' = [task EXCEPT ![p] = t]
             /\ loc' = [loc EXCEPT ![p] = l]
             /\ pc' = [pc EXCEPT ![p] = "notingit_prune"]
             /\ UNCHANGED <<agentsPresent, registry, branches, last>>

(* recoverInvalidGit, up to the backup: BranchExists, then os.Rename of the
   working tree to <worktreeDir>.backup. *)
recoverInvalidGit(p, t) ==
    LET d == t.AgentDir
        l == [RecoverLoc(t) EXCEPT !.branchExists = BranchExists(Now, t.Name)]
        works == DirExists(d) /\ RenameWorks(TreeOf(agents[d]), agents[d].backup)
    IN
    \E fault \in {FALSE, works} :
        IF fault \/ ~works
        THEN /\ Finish(p, Ret("RecoverTask", FALSE, "failed to create backup", t),
                       [l EXCEPT !.faults = IF fault THEN {"rename"} ELSE {}])
             /\ UNCHANGED <<agentsPresent, agents, registry, branches, task>>
        ELSE /\ agents' = RenameToBackup(agents, d)
             /\ task' = [task EXCEPT ![p] = t]
             /\ loc' = [loc EXCEPT ![p] = l]
             /\ pc' = [pc EXCEPT ![p] = "invalidgit_prune"]
             /\ UNCHANGED <<agentsPresent, registry, branches, last>>

(* The administrative directory that git keeps for the working tree of
   directory d, which the .git file of the tree names. *)
GitDir(d) == ProjectDir \o <<"/", ".git", "/", "worktrees", "/">> \o d

(* The commit that every working tree of the model has checked out. *)
Commit == <<"4", "6", "1", "e">>

RefPrefix == <<"r", "e", "f", ":">>

(* The HEAD file of a working tree: a reference to its branch, or the
   commit when the head is detached; git ends the file with a newline. *)
HeadData(e, branch) ==
    IF e.head = "ref"
    THEN RefPrefix \o <<" ", "refs", "/", "heads", "/">> \o branch \o <<"\n">>
    ELSE Commit \o <<"\n">>

(* The files of the repository metadata that getWorktreeHead can read. *)
MetaFiles(g) ==
    {[path |-> GitDir(w.path) \o <<"/", "HEAD">>,
      data |-> HeadData(g.ag[w.path], w.branch)] :
        w \in {x \in g.reg : x.path \in DOMAIN g.ag}}
    \cup {[path |-> ProjectDir \o <<"/", ".git", "/", "refs", "/", "heads", "/">> \o b,
           data |-> Commit \o <<"\n">>] : b \in g.br}

(* os.ReadFile *)
ReadFile(g, path) ==
    IF \E f \in MetaFiles(g) : f.path = path
    THEN [ok |-> TRUE, data |-> (CHOOSE f \in MetaFiles(g) : f.path = path).data]
    ELSE [ok |-> FALSE, data |-> <<>>]

(* filepath.Join(dir, ".."): the path without its last element. *)
Parent(path) == SubSeq(path, 1, Len(path) - Len(Base(path)) - 1)

(* getWorktreeHead: the gitdir line of the .git file, the HEAD file under
   it, and for a reference the file at filepath.Join(gitdir, "..", head[5:]). *)
getWorktreeHead(g, d) ==
    LET failed == [ok |-> FALSE, data |-> <<>>]
        head == ReadFile(g, GitDir(d) \o <<"/", "HEAD">>)
    IN IF ~PathExists(g, d) \/ g.ag[d].plain \/ g.ag[d].gitFile # "valid"
       THEN failed
       ELSE IF ~head.ok
       THEN failed
       ELSE IF Len(head.data) >= 4 /\ SubSeq(head.data, 1, 4) = RefPrefix
       THEN ReadFile(g, Parent(GitDir(d)) \o <<"/">>
                           \o SubSeq(head.data, 6, Len(head.data)))
       ELSE head

(* git branch <branch> <startPoint>: the start point has to name a commit. *)
BranchCreate(g, b, startPoint, fault) ==
    IF fault \/ b \in g.br \/ ~(startPoint = Commit \/ startPoint \in g.br)
    THEN [g EXCEPT !.ok = FALSE]
    ELSE [g EXCEPT !.br = @ \cup {b}]

(* recoverMissingBranch: getWorktreeHead, then BranchCreate at what it
   returned. *)
recoverMissingBranch(p, t) ==
    LET h == getWorktreeHead(Now, t.AgentDir)
        l == RecoverLoc(t)
    IN
    IF ~h.ok
    THEN /\ Finish(p, Ret("RecoverTask", FALSE, "failed to get worktree HEAD", t), l)
         /\ UNCHANGED <<agentsPresent, agents, registry, branches, task>>
    ELSE \E fault \in BOOLEAN :
           LET g == BranchCreate(Now, t.Name, h.data, fault) IN
           /\ Apply(g)
           /\ Finish(p, Ret("RecoverTask", g.ok,
                            IF g.ok THEN "" ELSE "failed to create branch", t),
                     [l EXCEPT !.faults = IF fault THEN {"branch"} ELSE {}])
           /\ UNCHANGED task

(* The tasks that a caller can hand to RecoverTask: one that the last sweep
   returned, or, as the recover-task command does, the one that GetTask
   has just returned. *)
Recoverable ==
    IF last.op = "FindCorruptedTasks" THEN last.val
    ELSE IF last.op = "GetTask" /\ last.ok THEN {last.val}
    ELSE {}

(* What of the corruption kind the text of an error of RecoverTask names:
   only the error of the default case formats task.CorruptedReason. *)
ErrorKind(err, reason) ==
    IF err = "unknown corruption reason" THEN reason ELSE ""

(* RecoverTask: the switch on the CorruptedReason of the task and the first
   statement of the repair. *)
RecoverTask(p) ==
    /\ pc[p] = "idle"
    /\ \E t \in Recoverable :
         IF t.CorruptedReason = CorruptMissingWorktree THEN recoverMissingWorktree(p, t)
         ELSE IF t.CorruptedReason = CorruptNotInGit THEN recoverNotInGit(p, t)
         ELSE IF t.CorruptedReason = CorruptInvalidGit THEN recoverInvalidGit(p, t)
         ELSE IF t.CorruptedReason = CorruptMissingBranch THEN recoverMissingBranch(p, t)
         ELSE /\ Finish(p, Ret("RecoverTask", FALSE, "unknown corruption reason", t),
                        RecoverLoc(t))
              /\ UNCHANGED <<agentsPresent, agents, registry, branches, task>>
    /\ UNCHANGED <<trunk, queue, windows, worktreeMode, held>>

(* recoverNotInGit and recoverInvalidGit: WorktreePrune, its error ignored. *)
RecoverPrune(p) ==
    /\ pc[p] \in {"notingit_prune", "invalidgit_prune"}
    /\ \E fault \in BOOLEAN :
         /\ Apply(WorktreePrune(Now, fault))
         /\ loc' = [loc EXCEPT ![p].faults = IF fault THEN @ \cup {"prune"} ELSE @]
    /\ pc' = [pc EXCEPT ![p] = IF pc[p] = "notingit_prune"
                               THEN "notingit_add" ELSE "invalidgit_add"]
    /\ UNCHANGED <<trunk, queue, windows, worktreeMode, task, held, last>>

(* recoverNotInGit recreating the tree on the existing branch only. *)
RecoverNotInGitAddNoBranch(p) ==
    /\ pc[p] = "notingit_add"
    /\ \E fault \in BOOLEAN :
         LET g == WorktreeAdd(Now, task[p].AgentDir, task[p].Name, FALSE, fault)
         IN /\ Apply(g)
            /\ IF g.ok
               THEN RecoverReturns(p, TRUE, "")
               ELSE RecoverFails(p, "failed to recreate worktree",
                                 IF fault THEN {"add"} ELSE {})
    /\ UNCHANGED <<trunk, queue, windows, worktreeMode, held>>

(* recoverNotInGit: createBranch := !BranchExists, then WorktreeAdd. *)
RecoverNotInGitAdd(p) ==
    /\ pc[p] = "notingit_add"
    /\ \E fault \in BOOLEAN :
         LET createBranch == ~BranchExists(Now, task[p].Name)
             g == WorktreeAdd(Now, task[p].AgentDir, task[p].Name, createBranch, fault)
         IN /\ Apply(g)
            /\ IF g.ok
               THEN RecoverReturns(p, TRUE, "")
               ELSE RecoverFails(p, "failed to recreate worktree",
                                 IF fault THEN {"add"} ELSE {})
    /\ UNCHANGED <<trunk, queue, windows, worktreeMode, held>>

(* recoverInvalidGit returning the error without putting the backup back. *)
RecoverInvalidGitAddNoRestore(p) ==
    /\ pc[p] = "invalidgit_add"
    /\ \E fault \in BOOLEAN :
         LET g == WorktreeAdd(Now, task[p].AgentDir, task[p].Name,
                              ~loc[p].branchExists, fault)
         IN /\ Apply(g)
            /\ IF g.ok
               THEN /\ pc' = [pc EXCEPT ![p] = "invalidgit_copy"]
                    /\ UNCHANGED <<task, loc, last>>
               ELSE RecoverFails(p, "failed to recreate worktree",
                                 IF fault THEN {"add"} ELSE {})
    /\ UNCHANGED <<trunk, queue, windows, worktreeMode, held>>

(* recoverInvalidGit: WorktreeAdd with the createBranch decided before the
   backup; on failure os.Rename of the backup to the working tree path, its
   error ignored. *)
RecoverInvalidGitAdd(p) ==
    LET d == task[p].AgentDir IN
    /\ pc[p] = "invalidgit_add"
    /\ \E fault \in BOOLEAN :
         LET g == WorktreeAdd(Now, d, task[p].Name, ~loc[p].branchExists, fault)
         IN IF g.ok
            THEN /\ Apply(g)
                 /\ pc' = [pc EXCEPT ![p] = "invalidgit_copy"]
                 /\ UNCHANGED <<task, loc, last>>
            ELSE /\ agentsPresent' = g.present
                 /\ registry' = g.reg
                 /\ branches' = g.br
                 /\ agents' = IF /\ d \in DOMAIN g.ag
                                 /\ RenameWorks(g.ag[d].backup, TreeOf(g.ag[d]))
                              THEN RenameFromBackup(g.ag, d)
                              ELSE g.ag
                 /\ RecoverFails(p, "failed to recreate worktree",
                                 IF fault THEN {"add"} ELSE {})
    /\ UNCHANGED <<trunk, queue, windows, worktreeMode, held>>

(* copyDirContents skips every entry named as an exclusion, by its
   relative path or by its base name, at any depth. *)
Excluded(rel, exclude) ==
    \E ex \in exclude : rel = ex \/ Base(rel) = ex

(* copyFile of an entry: os.Open follows a symbolic link, and io.Copy
   cannot read the directory that ClaudeLink leads to. *)
CopyFileWorks(rel) == rel # ClaudeLink

(* The entries that copyDirContents(src, dst, {".git"}) writes into dst
   when every copy works. *)
Copied(files) == {rel \in files : ~Excluded(rel, {<<".git">>})}

(* recoverInvalidGit: copyDirContents(backupDir, worktreeDir, {".git"}).
   filepath.Walk fails on a backup that is gone, copyFile fails on a backup
   that is a regular file and on an entry it cannot read, and any single
   copy can fail. *)
RecoverInvalidGitCopy(p) ==
    LET d == task[p].AgentDir
        works == /\ DirExists(d)
                 /\ agents[d].backup.present
                 /\ ~agents[d].backup.plain
                 /\ ~agents[d].plain
                 /\ \A rel \in Copied(agents[d].backup.files) : CopyFileWorks(rel)
    IN
    /\ pc[p] = "invalidgit_copy"
    /\ \E fault \in {FALSE, works} :
         IF fault \/ ~works
         THEN /\ RecoverFails(p, "failed to restore files",
                              IF fault THEN {"copy"} ELSE {})
              /\ UNCHANGED agents
         ELSE /\ agents' = [agents EXCEPT ![d].worktree = TRUE,
                                          ![d].files = @ \cup Copied(agents[d].backup.files)]
              /\ pc' = [pc EXCEPT ![p] = "invalidgit_rmbackup"]
              /\ UNCHANGED <<task, loc, last>>
    /\ UNCHANGED <<trunk, queue, windows, agentsPresent, worktreeMode, registry, branches, held>>

(* recoverInvalidGit: os.RemoveAll(backupDir), return nil. *)
RecoverInvalidGitDone(p) ==
    LET d == task[p].AgentDir IN
    /\ pc[p] = "invalidgit_rmbackup"
    /\ agents' = IF d \in DOMAIN agents
                 THEN [agents EXCEPT ![d].backup = NoBackup] ELSE agents
    /\ RecoverReturns(p, TRUE, "")
    /\ UNCHANGED <<trunk, queue, windows, agentsPresent, worktreeMode, registry, branches, held>>

(* ------------------------ external interference ----------------------- *)
(* Somebody deletes the working tree directory by hand. *)
ExternalRemoveTree(d) ==
    /\ WorktreeExists(d)
    /\ agents' = RemoveAllTree(agents, d)
    /\ UNCHANGED <<trunk, queue, windows, agentsPresent, worktreeMode, registry, branches,
                   pc, task, loc, held, last>>

(* Somebody deletes the branch behind git's back (update-ref -d). *)
ExternalDeleteBranch(b) ==
    /\ b \in branches
    /\ branches' = branches \ {b}
    /\ UNCHANGED <<trunk, queue, windows, agentsPresent, agents, worktreeMode, registry,
                   pc, task, loc, held, last>>

(* The .git file of the working tree is deleted or overwritten. *)
ExternalDamageMarker(d, how) ==
    /\ WorktreeExists(d)
    /\ ~agents[d].plain
    /\ agents[d].gitFile = "valid"
    /\ agents' = [agents EXCEPT ![d].gitFile = how]
    /\ UNCHANGED <<trunk, queue, windows, agentsPresent, worktreeMode, registry, branches,
                   pc, task, loc, held, last>>

(* git loses its record of the working tree while the directory stays. *)
ExternalUnregister(d) ==
    /\ Registered(registry, d)
    /\ registry' = {w \in registry : w.path # d}
    /\ UNCHANGED <<trunk, queue, windows, agentsPresent, agents, worktreeMode, branches,
                   pc, task, loc, held, last>>

(* The working tree directory is replaced by a regular file. *)
ExternalReplaceTree(d) ==
    /\ WorktreeExists(d)
    /\ ~agents[d].plain
    /\ agents' = [agents EXCEPT ![d] = [NoTree(@) EXCEPT !.worktree = TRUE,
                                                           !.plain = TRUE]]
    /\ UNCHANGED <<trunk, queue, windows, agentsPresent, worktreeMode, registry, branches,
                   pc, task, loc, held, last>>

(* The agent detaches the head of its working tree (git checkout --detach). *)
ExternalDetachHead(d) ==
    /\ WorktreeExists(d)
    /\ Registered(registry, d)
    /\ agents[d].head = "ref"
    /\ agents' = [agents EXCEPT ![d].head = "detached"]
    /\ UNCHANGED <<trunk, queue, windows, agentsPresent, worktreeMode, registry, branches,
                   pc, task, loc, held, last>>

(* The agent commits on the branch of its working tree. *)
ExternalCommit(d) ==
    /\ WorktreeExists(d)
    /\ d \in branches
    /\ agents[d].merged
    /\ agents' = [agents EXCEPT ![d].merged = FALSE]
    /\ UNCHANGED <<trunk, queue, windows, agentsPresent, worktreeMode, registry, branches,
                   pc, task, loc, held, last>>

(* The branch of the task is merged into trunk. *)
ExternalMerge(d) ==
    /\ DirExists(d)
    /\ d \in branches
    /\ ~agents[d].merged
    /\ agents' = [agents EXCEPT ![d].merged = TRUE]
    /\ UNCHANGED <<trunk, queue, windows, agentsPresent, worktreeMode, registry, branches,
                   pc, task, loc, held, last>>

(* The agent opens a review request and records its number in .pr. *)
ExternalOpenPR(d) ==
    /\ DirExists(d)
    /\ agents[d].review = "none"
    /\ agents' = [agents EXCEPT ![d].review = "open", ![d].pr = Itoa(PRNumber)]
    /\ UNCHANGED <<trunk, queue, windows, agentsPresent, worktreeMode, registry, branches,
                   pc, task, loc, held, last>>

(* The review request is merged on the review platform. *)
ExternalMergePR(d) ==
    /\ DirExists(d)
    /\ agents[d].review = "open"
    /\ agents' = [agents EXCEPT ![d].review = "merged"]
    /\ UNCHANGED <<trunk, queue, windows, agentsPresent, worktreeMode, registry, branches,
                   pc, task, loc, held, last>>

(* The window of a task is closed. *)
ExternalCloseWindow(w) ==
    /\ w \in windows
    /\ windows' = windows \ {w}
    /\ UNCHANGED <<trunk, queue, agentsPresent, agents, worktreeMode, registry, branches,
                   pc, task, loc, held, last>>

(* The process ends; its slot is taken by a fresh process. *)
Exit(p) ==
    /\ pc[p] = "idle"
    /\ task[p] # NoTask
    /\ task' = [task EXCEPT ![p] = NoTask]
    /\ held' = [held EXCEPT ![p] = {}]
    /\ UNCHANGED <<trunk, queue, windows, agentsPresent, agents, worktreeMode, registry, branches,
                   pc, loc, last>>

(* ---------------------------- specifications ---------------------------- *)
OneName == {<<"fix-login">>}
LockWindows == {<<"@", "1">>}

(* A project in worktree mode whose tasks were created and some of them
   handled: handle-task took the lock, set up the working tree on a branch
   named after the task, opened the window and saved its id, and the agent
   wrote a file into the tree. *)
GitNames == {<<"fix-login">>, <<"fix-login", "-", "1">>}
WindowOf(d) == IF d = <<"fix-login">> THEN <<"@", "1">> ELSE <<"@", "2">>
HandledDirWith(d, files) ==
    [EmptyDir EXCEPT !.content = <<"c1">>, !.lock = TRUE,
                     !.windowID = WindowOf(d), !.worktree = TRUE,
                     !.gitFile = "valid", !.files = files, !.merged = TRUE]

(* The working tree as SetupWorktree and the agent's first edit leave it. *)
HandledDir(d) == HandledDirWith(d, {ClaudeLink, WorkFile})
CreatedDir == [EmptyDir EXCEPT !.content = <<"c1">>]

InitGitFiles(names, handled, files) ==
    /\ agentsPresent = TRUE
    /\ worktreeMode = TRUE
    /\ agents = [d \in names |->
                   IF d \in handled THEN HandledDirWith(d, files) ELSE CreatedDir]
    /\ registry = {[path |-> d, branch |-> d] : d \in handled}
    /\ branches = handled
    /\ windows = {WindowOf(d) : d \in handled}
    /\ pc = [p \in Procs |-> "idle"]
    /\ task = [p \in Procs |-> NoTask]
    /\ loc = [p \in Procs |-> NoLoc]
    /\ held = [p \in Procs |-> {}]
    /\ queue = NoQueue
    /\ trunk = CleanTrunk
    /\ last = NoRet

InitGitWith(names, handled) ==
    InitGitFiles(names, handled, HandledDir(<<>>).files)

(* Two tasks, both handled. *)
InitGit == InitGitWith(GitNames, GitNames)

(* Teardown of tasks, by processes that can be killed part-way, over
   working trees that were damaged from outside. *)
NextCleanup ==
    \/ \E p \in Procs :
         \/ \E name \in OneName : GetTask(p, name)
         \/ CleanupTask(p)
         \/ CleanupPrune(p)
         \/ CleanupBranch(p)
         \/ CleanupRemove(p)
         \/ Kill(p)
    \/ \E d \in OneName :
         \/ ExternalRemoveTree(d)
         \/ ExternalUnregister(d)
         \/ \E how \in {"absent", "malformed"} : ExternalDamageMarker(d, how)

InitCleanup == \E handled \in SUBSET OneName : InitGitWith(OneName, handled)

SpecCleanup == InitCleanup /\ [][NextCleanup]_vars

(* The sweep for corrupted tasks over working trees damaged from outside. *)
NextSweep ==
    \/ \E p \in Procs : FindCorruptedTasks(p)
    \/ \E d \in GitNames :
         \/ ExternalRemoveTree(d)
         \/ ExternalDeleteBranch(d)
         \/ ExternalUnregister(d)
         \/ ExternalReplaceTree(d)
         \/ \E how \in {"absent", "malformed"} : ExternalDamageMarker(d, how)
         \/ ExternalCloseWindow(WindowOf(d))

SpecSweep == InitGit /\ [][NextSweep]_vars

(* Repair of one task whose working tree was damaged from outside. *)
InitRecover ==
    \E link \in SUBSET {ClaudeLink} :
        InitGitFiles(OneName, OneName, link \cup {WorkFile})

NextRecover ==
    \/ \E p \in Procs :
         \/ FindCorruptedTasks(p)
         \/ RecoverTask(p)
         \/ RecoverPrune(p)
         \/ RecoverNotInGitAdd(p)
         \/ RecoverInvalidGitAdd(p)
         \/ RecoverInvalidGitCopy(p)
         \/ RecoverInvalidGitDone(p)
    \/ \E d \in OneName :
         \/ ExternalRemoveTree(d)
         \/ ExternalDeleteBranch(d)
         \/ ExternalUnregister(d)
         \/ ExternalReplaceTree(d)
         \/ \E how \in {"absent", "malformed"} : ExternalDamageMarker(d, how)

SpecRecover == InitRecover /\ [][NextRecover]_vars

(* Repair, without further damage, of working trees of every content. *)
InitRestore ==
    \E files \in SUBSET FileNames : InitGitFiles(OneName, OneName, files)

NextRestore ==
    \/ \E p \in Procs :
         \/ FindCorruptedTasks(p)
         \/ RecoverTask(p)
         \/ RecoverPrune(p)
         \/ RecoverNotInGitAdd(p)
         \/ RecoverInvalidGitAdd(p)
         \/ RecoverInvalidGitCopy(p)
         \/ RecoverInvalidGitDone(p)
    \/ \E d \in OneName :
         \E how \in {"absent", "malformed"} : ExternalDamageMarker(d, how)

SpecRestore == InitRestore /\ [][NextRestore]_vars

(* Repair of a task whose branch was deleted from outside. *)
NextBranch ==
    \/ \E p \in Procs :
         \/ FindCorruptedTasks(p)
         \/ RecoverTask(p)
         \/ \E name \in OneName : GetTask(p, name)
    \/ \E d \in OneName :
         \/ ExternalDeleteBranch(d)
         \/ ExternalDetachHead(d)
         \/ ExternalRemoveTree(d)

SpecBranch == InitRecover /\ [][NextBranch]_vars

(* Detection of completed tasks while branches are merged and deleted. *)
InitMerged == InitGitWith(OneName, OneName)

NextMerged ==
    \/ \E p \in Procs : FindMergedTasks(p)
    \/ \E d \in OneName :
         \/ ExternalCommit(d)
         \/ ExternalMerge(d)
         \/ ExternalOpenPR(d)
         \/ ExternalMergePR(d)
         \/ ExternalDeleteBranch(d)
         \/ ExternalRemoveTree(d)
         \/ ExternalUnregister(d)

SpecMerged == InitMerged /\ [][NextMerged]_vars

(* A project that is not run in worktree mode. *)
InitNoGit == Init /\ ~worktreeMode

(* The handler lock under every operation that touches a lock directory. *)
NextLock ==
    \E p \in Procs :
        \/ Initialize(p)
        \/ CreateTaskBegin(p, 1, {TRUE}, OneName)
        \/ CreateTaskMkdir(p)
        \/ CreateTaskSave(p)
        \/ \E name \in OneName : GetTask(p, name)
        \/ CreateTabLock(p)
        \/ RemoveTabLock(p)
        \/ \E w \in LockWindows : SaveWindowID(p, w)
        \/ CleanupTask(p)
        \/ Exit(p)

Spec == InitNoGit /\ [][NextLock]_vars

(* Triggers racing for the lock of a task that nobody releases or removes. *)
NextRace ==
    \E p \in Procs :
        \/ Initialize(p)
        \/ CreateTaskBegin(p, 1, {TRUE}, OneName)
        \/ CreateTaskMkdir(p)
        \/ CreateTaskSave(p)
        \/ \E name \in OneName : GetTask(p, name)
        \/ CreateTabLock(p)
        \/ \E w \in LockWindows : SaveWindowID(p, w)

SpecRace == InitNoGit /\ [][NextRace]_vars

(* Task creation: naming, directory allocation, content, teardown. *)
NextCreate ==
    \E p \in Procs :
        \/ Initialize(p)
        \/ CreateTaskBegin(p, MaxTasks + 1, BOOLEAN, BaseNames)
        \/ CreateTaskMkdir(p)
        \/ CreateTaskSave(p)
        \/ CleanupTask(p)
        \/ Exit(p)

SpecCreate == InitNoGit /\ [][NextCreate]_vars

(* Directory allocation when nearly every candidate name is taken: the
   agents directory after Fill successful CreateTask calls for one name. *)
FillLow == 99
FilledDir == [EmptyDir EXCEPT !.content = <<"c1">>]
TakenNames(n) == {SuffixName(<<"fix-login">>, k) : k \in 0..(n - 1)}

InitExhaust ==
    /\ agentsPresent = TRUE
    /\ \E n \in FillLow..(MaxSuffix + 1) :
          agents = [d \in TakenNames(n) |-> FilledDir]
    /\ worktreeMode = FALSE
    /\ registry = {}
    /\ branches = {}
    /\ pc = [p \in Procs |-> "idle"]
    /\ task = [p \in Procs |-> NoTask]
    /\ loc = [p \in Procs |-> NoLoc]
    /\ held = [p \in Procs |-> {}]
    /\ windows = {}
    /\ queue = NoQueue
    /\ trunk = CleanTrunk
    /\ last = NoRet

NextExhaust ==
    \E p \in Procs :
        \/ CreateTaskBegin(p, MaxSuffix + 2, {TRUE}, OneName)
        \/ CreateTaskMkdir(p)
        \/ CreateTaskSave(p)

SpecExhaust == InitExhaust /\ [][NextExhaust]_vars

(* GetTask against the operations that write the markers of one task. *)
NextGet ==
    \E p \in Procs :
        \/ Initialize(p)
        \/ CreateTaskBegin(p, 1, {TRUE}, OneName)
        \/ CreateTaskMkdir(p)
        \/ CreateTaskSave(p)
        \/ \E name \in OneName : GetTask(p, name)
        \/ CreateTabLock(p)
        \/ \E w \in WindowIDs : SaveWindowID(p, w)
        \/ \E n \in PRNumbers : SavePRNumber(p, n)
        \/ \E d \in DOMAIN agents : CorruptContent(d)
        \/ CleanupTask(p)

SpecGet == InitNoGit /\ [][NextGet]_vars

(* Readers against writers: GetTask and ListTasks while task directories
   are created, filled, corrupted and removed. *)
NextList ==
    \E p \in Procs :
        \/ Initialize(p)
        \/ CreateTaskBegin(p, MaxTasks, {TRUE}, OneName)
        \/ CreateTaskMkdir(p)
        \/ CreateTaskSave(p)
        \/ \E name \in DOMAIN agents \cup OneName : GetTask(p, name)
        \/ ListTasksRead(p)
        \/ ListTasksFinish(p)
        \/ \E d \in DOMAIN agents : CorruptContent(d)
        \/ CleanupTask(p)
        \/ Exit(p)

SpecList == InitNoGit /\ [][NextList]_vars

(* ------------------------------- claims --------------------------------- *)
Holders(d) == {p \in Procs : d \in held[p]}

(* C1: with the lock directory of a task absent and no RemoveTabLock in
   between, of any number of concurrent CreateTabLock calls on the task
   exactly one returns (true, nil) and every other returns (false, nil). *)
C1_ExactlyOneAcquires ==
    \A d \in DOMAIN agents :
        /\ Cardinality(Holders(d)) <= 1
        /\ agents[d].lock <=> Holders(d) # {}
        /\ (last.op = "CreateTabLock" /\ last.loc.name = d) =>
              /\ last.err = ""
              /\ Cardinality(Holders(d)) = 1
              /\ last.ok => d \in held[last.proc]
              /\ last.ok <=> ~last.loc.seen.entry.lock

C1_Witness ==
    /\ last.op = "CreateTabLock"
    /\ ~last.ok
    /\ last.err = ""
    /\ \E q \in Procs \ {last.proc} : last.loc.name \in held[q]

(* C2 as stated: under any interleaving of CreateTabLock, RemoveTabLock,
   CleanupTask and CreateTask by any process, at most one live handler holds
   the lock of a task. *)
C2_AtMostOneHolder ==
    \A d \in DOMAIN agents : Cardinality(Holders(d)) <= 1

(* Every lock a live handler acquired is still on disk. *)
LockIntact ==
    \A p \in Procs : \A d \in held[p] : DirExists(d) /\ agents[d].lock

(* C2 amended: a CreateTabLock acquires the lock of a task only when the
   lock directory is absent and returns false while it exists, so at most
   one live handler holds the lock of a task as long as no process removes
   the lock directory of a handler that still holds it. *)
C2_ExclusionUnlessRemoved ==
    [][/\ \A p \in Procs :
             /\ \A d \in held'[p] \ held[p] :
                   DirExists(d) /\ ~agents[d].lock /\ agents'[d].lock
             /\ (CreateTabLock(p) /\ DirExists(task[p].AgentDir)
                   /\ agents[task[p].AgentDir].lock) => ~last'.ok /\ held' = held
       /\ (C2_AtMostOneHolder /\ LockIntact /\ LockIntact') => C2_AtMostOneHolder']_vars

C2_Witness ==
    \E p \in Procs, q \in Procs :
        /\ p # q
        /\ task[p].AgentDir = task[q].AgentDir
        /\ task[p].AgentDir \in held[p]
        /\ task[q].AgentDir \notin held[q]
        /\ last.op = "CreateTabLock" /\ last.proc = q /\ ~last.ok
        /\ last.loc.seen.entry.lock

(* C3: the CreateTabLock that observes acquired = false has no side effect:
   the lock directory, the window_id file in it and everything else on disk
   are as the winner left them. *)
C3_LoserNoSideEffects ==
    [][\A p \in Procs :
          (CreateTabLock(p) /\ ~last'.ok) =>
              UNCHANGED <<trunk, queue, windows, agentsPresent, agents, registry, branches, held, task>>]_vars

C3_Witness ==
    /\ last.op = "CreateTabLock"
    /\ ~last.ok
    /\ last.err = ""
    /\ DirExists(last.loc.name)
    /\ agents[last.loc.name].lock
    /\ agents[last.loc.name].windowID # NoFile
    /\ \E q \in Procs \ {last.proc} : last.loc.name \in held[q]

(* C4: RemoveTabLock returns no error whether the lock directory exists or
   not and leaves the lock directory and its window_id file absent; called
   on an unlocked task it changes nothing; a CreateTabLock on a task with no
   lock directory returns true. *)
C4_RemoveIdempotent ==
    [][\A p \in Procs :
          LET d == task[p].AgentDir IN
          /\ RemoveTabLock(p) =>
                /\ last'.ok /\ last'.err = ""
                /\ DirExists(d) => ~agents'[d].lock /\ agents'[d].windowID = NoFile
                /\ (DirExists(d) /\ ~agents[d].lock /\ agents[d].windowID = NoFile)
                      => agents' = agents
                /\ ~DirExists(d) => agents' = agents
          /\ (CreateTabLock(p) /\ DirExists(d) /\ ~agents[d].lock) =>
                last'.ok /\ agents'[d].lock]_vars

C4_Witness ==
    /\ last.op = "RemoveTabLock"
    /\ last.ok
    /\ last.loc.seen.present
    /\ ~last.loc.seen.entry.lock
(* C5 as stated: every Task that CreateTask returns is named after the
   directory allocated for it (base name, then -1, -2, ...), so no two live
   Tasks have the same Name. *)
C5_NameIsDirectory ==
    /\ (last.op = "CreateTask" /\ last.ok) => last.val.Name = last.val.AgentDir
    /\ \A p \in Procs, q \in Procs :
          (task[p] # NoTask /\ task[q] # NoTask
             /\ task[p].AgentDir # task[q].AgentDir) => task[p].Name # task[q].Name

(* C6 as stated: createTaskDirectory makes at most 100 directory-creation
   attempts for one base name, and reports exhaustion after the 100th. *)
C6_AtMostHundredAttempts ==
    /\ \A p \in Procs : pc[p] = "mkdir" => loc[p].i + 1 <= AttemptLimit
    /\ (last.op = "CreateTask" /\ ~last.ok /\ last.loc.i > 0) =>
          last.loc.i = AttemptLimit

(* C7 as stated: a CreateTask whose naming collaborator failed returns a
   Task under the timestamp-derived fallback name. *)
C7_FallbackIsTimestamp ==
    (last.op = "CreateTask" /\ last.loc.nameErr /\ last.ok) =>
        last.val.Name = TimestampName(last.loc.ts)
(* C8: GetTask reports not-found for an absent task directory; otherwise
   Status, WindowID and PRNumber of the Task it returns are those the
   markers on disk determine (always Pending; the trimmed window_id when the
   lock directory and the file exist, else empty; the number in .pr, else 0),
   and a call over the on-disk state the previous call saw, by the same or
   another process, returns the same values. *)
C8_GetTaskFromMarkers ==
    [][\A p \in Procs : \A name \in OneName :
          GetTask(p, name) =>
             LET e == Seen(name).entry
                 t == last'.val
             IN
             /\ ~Seen(name).present => ~last'.ok /\ last'.err = "task not found"
             /\ last'.ok =>
                   /\ Seen(name).present
                   /\ t.Status = StatusPending
                   /\ (e.lock /\ e.windowID \in WindowIDs) =>
                         t.WindowID = TrimSpace(e.windowID)
                   /\ (~e.lock \/ e.windowID = NoFile) => t.WindowID = <<>>
                   /\ e.pr = NoFile => t.PRNumber = 0
                   /\ \A n \in PRNumbers : e.pr = Itoa(n) => t.PRNumber = n
             /\ (last.op = "GetTask" /\ last.loc.name = name
                   /\ last.loc.seen = Seen(name)) =>
                   /\ last'.ok = last.ok
                   /\ last'.err = last.err
                   /\ t.Status = last.val.Status
                   /\ t.WindowID = last.val.WindowID
                   /\ t.PRNumber = last.val.PRNumber]_vars

C8_Witness ==
    /\ last.op = "GetTask"
    /\ last.ok
    /\ last.val.WindowID # <<>>
    /\ last.val.PRNumber # 0
    /\ \E q \in Procs \ {last.proc} :
          /\ task[q].AgentDir = last.val.AgentDir
          /\ task[q].WindowID # last.val.WindowID

(* C9: a GetTask or a ListTasks that finds a task directory with no content
   file and no markers, as CreateTask leaves it between allocating the
   directory and writing the content, returns the task with Status Pending
   and no error. *)
C9_MidCreationPending ==
    /\ (last.op = "GetTask" /\ last.loc.seen.present
          /\ last.loc.seen.entry = EmptyDir) =>
          /\ last.ok /\ last.err = ""
          /\ last.val.AgentDir = last.loc.name
          /\ last.val.Status = StatusPending
    /\ last.op = "ListTasks" =>
          /\ last.ok /\ last.err = ""
          /\ \A d \in last.loc.entries :
                (d \in DOMAIN last.loc.seenAll /\ last.loc.seenAll[d] = EmptyDir) =>
                   \E t \in last.val : t.AgentDir = d /\ t.Status = StatusPending

C9_Witness ==
    \E q \in Procs :
        /\ pc[q] = "save"
        /\ DirExists(task[q].AgentDir)
        /\ agents[task[q].AgentDir] = EmptyDir
        /\ last.op = "ListTasks"
        /\ last.proc # q
        /\ \E t \in last.val : t.AgentDir = task[q].AgentDir /\ t.Content = <<>>

(* C10: ListTasks returns no error; of the entries it read it returns exactly
   those for which GetTask succeeds (the directory still exists and its task
   file is not unreadable) and skips the others; with no agents directory it
   returns the empty list. *)
C10_ListSkipsBadRecords ==
    last.op = "ListTasks" =>
        /\ last.ok /\ last.err = ""
        /\ \A d \in last.loc.entries :
              (d \in DOMAIN last.loc.seenAll
                 /\ last.loc.seenAll[d].content # Unreadable)
              <=> \E t \in last.val : t.AgentDir = d /\ t.Name = d
        /\ \A t \in last.val : t.AgentDir \in last.loc.entries
        /\ Cardinality(last.val) <= Cardinality(last.loc.entries)

C10_Witness ==
    /\ last.op = "ListTasks"
    /\ last.ok
    /\ \E d \in last.loc.entries :
          /\ d \in DOMAIN last.loc.seenAll
          /\ last.loc.seenAll[d].content = Unreadable
    /\ \E d \in last.loc.entries : d \notin DOMAIN last.loc.seenAll
    /\ last.val # {}
(* ------------------------------- C11 ----------------------------------- *)
CleanupPcs == {"cleanup_prune", "cleanup_branch", "cleanup_record"}

(* Process p is in, or about to start, a CleanupTask on the task whose
   CleanupTask it completed last. *)
SecondCleanup(p) ==
    /\ last.op = "CleanupTask"
    /\ last.ok
    /\ last.proc = p
    /\ task[p] # NoTask
    /\ last.loc.name = task[p].AgentDir

CleanupStep(p) ==
    CleanupTask(p) \/ CleanupPrune(p) \/ CleanupBranch(p) \/ CleanupRemove(p)

(* C11: a second CleanupTask on the same task, after a completed first one,
   returns no error and is a no-op: no step of it changes a working tree, an
   on-disk record or the set of branches. *)
C11_SecondCleanupNoOp ==
    [][\A p \in Procs :
         (SecondCleanup(p) /\ CleanupStep(p)) =>
            /\ agents' = agents
            /\ branches' = branches
            /\ (pc'[p] = "idle" => last'.ok)]_vars

(* C11 as amended: the second CleanupTask returns no error, changes no
   working tree and no on-disk record, creates no branch and removes none
   but the task's own branch, which the first call can leave behind because
   it ignores the failures of its prune and of its branch deletion. *)
C11_SecondCleanupOnlyBranch ==
    [][\A p \in Procs :
         (SecondCleanup(p) /\ CleanupStep(p)) =>
            /\ agents' = agents
            /\ branches' \in {branches, branches \ {task[p].Name}}
            /\ (pc'[p] = "idle" => last'.ok)]_vars

(* The second CleanupTask of a process has reached its last statement. *)
C11_Witness ==
    \E p \in Procs : SecondCleanup(p) /\ pc[p] = "cleanup_record"

(* ------------------------------- C12 ----------------------------------- *)
(* C12: whatever the drivers do, CleanupTask goes on to the deletion of the
   record: past its first step the working tree is gone, whether
   WorktreeRemove worked or not; every later step can be taken; and the call
   returns nothing but the result of removing the record directory. *)
C12_TeardownReachesRecord ==
    /\ \A p \in Procs :
         /\ pc[p] \in CleanupPcs => ~PathExists(Now, loc[p].name)
         /\ pc[p] = "cleanup_prune" => ENABLED CleanupPrune(p)
         /\ pc[p] = "cleanup_branch" => ENABLED CleanupBranch(p)
         /\ pc[p] = "cleanup_record" => ENABLED CleanupRemove(p)
    /\ last.op = "CleanupTask" =>
         /\ last.ok <=> "record" \notin last.loc.faults
         /\ last.err \in {"", "remove failed"}
         /\ last.ok => ~DirExists(last.loc.name)

(* WorktreeRemove, prune and the branch deletion all failed and CleanupTask
   still removed the record and returned no error. *)
C12_Witness ==
    /\ last.op = "CleanupTask"
    /\ last.ok
    /\ last.loc.faults = {"remove", "prune", "branch"}
    /\ ~DirExists(last.loc.name)

(* ------------------------------- C13 ----------------------------------- *)
(* C13: a CleanupTask that runs to its end with working drivers leaves
   neither the working tree nor the task's branch nor the on-disk record,
   also when an earlier CleanupTask on the task was killed after any of its
   steps. *)
C13_RetryCompletesTeardown ==
    (last.op = "CleanupTask" /\ last.ok /\ last.loc.faults = {}) =>
        /\ ~DirExists(last.loc.name)
        /\ ~PathExists(Now, last.loc.name)
        /\ last.loc.name \notin branches
        /\ ~Registered(registry, last.loc.name)

(* A CleanupTask was killed after its forced delete of the working tree,
   with the registry entry and the branch still there, and another process
   then ran CleanupTask on the task to its end. *)
C13_Witness ==
    \E p \in Procs :
        /\ pc[p] = "killed"
        /\ loc[p].at = "cleanup_prune"
        /\ loc[p].faults = {"remove"}
        /\ last.op = "CleanupTask"
        /\ last.ok
        /\ last.proc # p
        /\ last.loc.name = loc[p].name
        /\ last.loc.faults = {}

(* ------------------------------- C14 ----------------------------------- *)
(* A step in which a call of FindCorruptedTasks returns: the sweep changes
   nothing but the record of the last call. *)
SweepReturns ==
    /\ last'.op = "FindCorruptedTasks"
    /\ last' # last
    /\ UNCHANGED <<agentsPresent, agents, registry, branches, windows>>

(* What the sweep reports for the task in directory d: its cause, "" for ok. *)
Reported(val, d) ==
    IF \E t \in val : t.AgentDir = d
    THEN (CHOOSE t \in val : t.AgentDir = d).CorruptedReason
    ELSE ""

(* The first match in the order of the diagnosis: directory absent, marker
   absent or malformed, not registered, branch missing, else ok. *)
FirstMatch(d) ==
    IF ~WorktreeExists(d) THEN CorruptMissingWorktree
    ELSE IF agents[d].plain \/ agents[d].gitFile # "valid" THEN CorruptInvalidGit
    ELSE IF ~Registered(registry, d) THEN CorruptNotInGit
    ELSE IF d \notin branches THEN CorruptMissingBranch
    ELSE ""

(* C14: for every state of directory, marker, registry and branch the
   diagnosis of a task is the first match in the fixed order: directory
   absent, marker absent or malformed, not registered, branch missing, ok
   (sweeps in which listing the working trees failed set aside). *)
C14_DiagnosisFirstMatch ==
    [][(SweepReturns /\ last'.loc.listFails = {}) =>
            \A d \in DOMAIN agents : Reported(last'.val, d) = FirstMatch(d)]_vars

(* ------------------------------- C15 ----------------------------------- *)
(* C15: a task whose workspace directory is absent is diagnosed
   MissingWorkspace and listed as Corrupted by FindCorruptedTasks, whether
   or not its branch still exists. *)
C15_AbsentIsMissingWorkspace ==
    [][SweepReturns =>
            \A d \in DOMAIN agents :
               ~WorktreeExists(d) =>
                  \E t \in last'.val :
                     /\ t.AgentDir = d
                     /\ t.Status = StatusCorrupted
                     /\ t.CorruptedReason = CorruptMissingWorktree]_vars

(* C15 as amended: a task whose workspace directory is absent is diagnosed
   MissingWorkspace and listed as Corrupted exactly when its branch still
   exists; with the branch gone as well it is diagnosed ok and not listed. *)
C15_AbsentWithBranchIsMissing ==
    [][SweepReturns =>
            \A d \in DOMAIN agents :
               ~WorktreeExists(d) =>
                  IF d \in branches
                  THEN \E t \in last'.val :
                          /\ t.AgentDir = d
                          /\ t.Status = StatusCorrupted
                          /\ t.CorruptedReason = CorruptMissingWorktree
                  ELSE \A t \in last'.val : t.AgentDir # d]_vars

(* A sweep over one task without directory but with its branch, which it
   lists, and one without directory and without branch, which it does not. *)
C15_Witness ==
    /\ last.op = "FindCorruptedTasks"
    /\ \E t \in last.val :
         /\ t.CorruptedReason = CorruptMissingWorktree
         /\ ~WorktreeExists(t.AgentDir)
         /\ t.Name \in branches
    /\ \E d \in DOMAIN agents :
         /\ ~WorktreeExists(d)
         /\ d \notin branches
         /\ \A t \in last.val : t.AgentDir # d

(* ------------------------------- C16 ----------------------------------- *)
(* C16: a task whose workspace directory is present with a valid marker and
   whose working tree is not in git's registry is diagnosed
   UnregisteredWorkspace, whatever other working trees are registered. *)
C16_UnregisteredDiagnosed ==
    [][SweepReturns =>
            \A d \in DOMAIN agents :
               (/\ WorktreeExists(d)
                /\ ~agents[d].plain
                /\ agents[d].gitFile = "valid"
                /\ ~Registered(registry, d)) =>
                  Reported(last'.val, d) = CorruptNotInGit]_vars

(* ------------------------------- C17 ----------------------------------- *)
(* The task in directory d has a live handler: its lock is held and the
   window recorded in it is open. *)
LiveHandler(d) ==
    /\ DirExists(d)
    /\ agents[d].lock
    /\ LoadWindowID(agents[d]) \in windows

(* C17: FindCorruptedTasks never returns, marked Corrupted, a task whose
   lock is held and whose recorded window is still open. *)
C17_SweepSkipsLiveHandlers ==
    [][SweepReturns =>
            \A t \in last'.val : ~LiveHandler(t.AgentDir)]_vars

(* ------------------------------- C18 ----------------------------------- *)
(* RecoverTask returns from the repair of a task that the sweep before it
   reported with the given reason; no git command of the repair was made
   to fail. *)
RepairReturns(reason) ==
    /\ last.op = "FindCorruptedTasks"
    /\ last'.op = "RecoverTask"
    /\ last'.val.CorruptedReason = reason
    /\ last'.loc.faults = {}

(* The working tree of directory d is a registered tree on branch b. *)
TreeBound(g, d, b) ==
    /\ PathExists(g, d)
    /\ ~g.ag[d].plain
    /\ g.ag[d].gitFile = "valid"
    /\ [path |-> d, branch |-> b] \in g.reg

(* C18: a sweep that finds the working tree directory of a task absent and
   its branch present reports MissingWorkspace, and the repair of that
   report, made while the directory is still absent and the branch still
   present, succeeds, leaves a working tree at the path bound to that
   branch, and leaves the set of branches as it was. *)
C18_MissingWorkspaceRecreated ==
    [][/\ SweepReturns =>
            \A d \in DOMAIN agents \ last'.loc.listFails :
                ~WorktreeExists(d) /\ d \in branches =>
                    Reported(last'.val, d) = CorruptMissingWorktree
       /\ RepairReturns(CorruptMissingWorktree) =>
            LET d == last'.val.AgentDir IN
            DirExists(d) /\ ~PathOccupied(Now, d) /\ d \in branches =>
                /\ last'.ok
                /\ TreeBound(Git(agentsPresent', agents', registry', branches'), d, d)
                /\ branches' = branches]_vars

(* ------------------------------- C19 ----------------------------------- *)
(* Process p moves from one statement of a repair to the next. *)
RepairMoves(p, from, to) == pc[p] = from /\ pc'[p] = to

(* C19: the repair of an unregistered working tree first deletes the
   directory and nothing else, then prunes the registry and nothing else,
   then adds the working tree; the add creates the task's branch exactly
   when that branch does not exist at the add, creates no other branch, and
   a successful add leaves a registered tree on the task's branch. *)
C19_UnregisteredRepairOrder ==
    [][\A p \in Procs :
        /\ RepairMoves(p, "idle", "notingit_prune") =>
             /\ ~PathExists(Git(agentsPresent', agents', registry', branches'),
                            task'[p].AgentDir)
             /\ UNCHANGED <<registry, branches>>
        /\ RepairMoves(p, "notingit_prune", "notingit_add") =>
             /\ UNCHANGED <<agents, branches>>
             /\ registry' = IF "prune" \in loc'[p].faults
                            THEN registry
                            ELSE Pruned(registry, agentsPresent, agents)
        /\ RepairMoves(p, "notingit_add", "idle") =>
             LET d == task[p].AgentDir
                 b == task[p].Name
             IN /\ branches' \subseteq branches \cup {b}
                /\ branches \subseteq branches'
                /\ "add" \notin last'.loc.faults =>
                     (b \in branches' \ branches <=> b \notin branches)
                /\ last'.ok =>
                     TreeBound(Git(agentsPresent', agents', registry', branches'), d, b)]_vars

(* A repair of an unregistered working tree has returned success and the
   tree is registered on the task's branch. *)
C19_Witness ==
    /\ last.op = "RecoverTask"
    /\ last.ok
    /\ last.val.CorruptedReason = CorruptNotInGit
    /\ TreeBound(Now, last.val.AgentDir, last.val.Name)

(* ------------------------------- C20 ----------------------------------- *)
(* The steps of recoverInvalidGit before and after the recreation of the
   tree: the backup takes the whole of what was at the workspace path, the
   prune and a successful add leave the backup alone, the copy puts every
   file of the backup into the tree and leaves the backup alone, a failed
   copy changes nothing, and the backup is only removed, the tree left as
   it is, at the end. *)
BackupKept(p) ==
    LET d == IF pc[p] = "idle" THEN task'[p].AgentDir ELSE task[p].AgentDir IN
    /\ RepairMoves(p, "idle", "invalidgit_prune") =>
         agents'[d].backup = TreeOf(agents[d])
    /\ RepairMoves(p, "invalidgit_prune", "invalidgit_add") =>
         agents' = agents
    /\ RepairMoves(p, "invalidgit_add", "invalidgit_copy") =>
         agents'[d].backup = agents[d].backup
    /\ RepairMoves(p, "invalidgit_copy", "invalidgit_rmbackup") =>
         /\ agents'[d].backup = agents[d].backup
         /\ Copied(agents[d].backup.files) \subseteq agents'[d].files
    /\ RepairMoves(p, "invalidgit_copy", "idle") =>
         agents' = agents
    /\ RepairMoves(p, "invalidgit_rmbackup", "idle") =>
         /\ TreeOf(agents'[d]) = TreeOf(agents[d])
         /\ last'.ok

(* The failed add of recoverInvalidGit has put the backup back. *)
BackupRestored(p) ==
    LET d == task[p].AgentDir IN
    /\ TreeOf(agents'[d]) = agents[d].backup
    /\ agents'[d].backup = NoBackup

(* C20 as stated: through every step of recoverInvalidGit the original
   contents are in the backup or at the workspace path, and whenever the
   recreation of the tree fails the backup is back at the workspace path
   when the error is returned. *)
C20_BackupAlwaysRestored ==
    [][\A p \in Procs :
        /\ BackupKept(p)
        /\ RepairMoves(p, "invalidgit_add", "idle") =>
             /\ ~last'.ok
             /\ BackupRestored(p)]_vars

(* C20: through every step of recoverInvalidGit the original contents are
   in the backup or at the workspace path; when the recreation of the tree
   fails the backup is back at the workspace path when the error is
   returned, unless something has appeared at the workspace path in the
   meantime, and then at least the backup is left where it is. *)
C20_BackupRestoredOrKept ==
    [][\A p \in Procs :
        /\ BackupKept(p)
        /\ RepairMoves(p, "invalidgit_add", "idle") =>
             LET d == task[p].AgentDir IN
             /\ ~last'.ok
             /\ \/ BackupRestored(p)
                \/ PathExists(Now, d) /\ agents' = agents]_vars

(* A repair of an invalid marker has returned the failure of the recreation
   and the contents of the tree are at the workspace path, no backup left. *)
C20_Witness ==
    /\ last.op = "RecoverTask"
    /\ last.err = "failed to recreate worktree"
    /\ last.val.CorruptedReason = CorruptInvalidGit
    /\ WorktreeExists(last.val.AgentDir)
    /\ WorkFile \in agents[last.val.AgentDir].files
    /\ ~agents[last.val.AgentDir].backup.present

(* ------------------------------- C21 ----------------------------------- *)
(* C21: when the repair of an invalid marker returns success, every entry
   that the backup holds, which is every entry of the original working
   tree but the .git file at its top, is in the tree, and the backup
   directory is gone. *)
C21_AllContentsRestored ==
    [][\A p \in Procs :
        RepairMoves(p, "invalidgit_rmbackup", "idle") /\ last'.ok =>
            LET d == task[p].AgentDir IN
            /\ agents[d].backup.files \subseteq agents'[d].files
            /\ ~agents'[d].backup.present]_vars

(* ------------------------------- C22 ----------------------------------- *)
(* C22: the repair of a missing branch, made on a working tree that is in
   place and registered while the branch is still missing and with no git
   failure injected, succeeds, creates the task's branch and no other, and
   changes nothing in the working tree. *)
C22_MissingBranchCreated ==
    [][RepairReturns(CorruptMissingBranch) =>
        LET d == last'.val.AgentDir
            b == last'.val.Name
        IN /\ agents' = agents
           /\ (TreeBound(Now, d, b) /\ b \notin branches) =>
                /\ last'.ok
                /\ branches' = branches \cup {b}]_vars

(* ------------------------------- C23 ----------------------------------- *)
(* What a fresh diagnosis of task t says in the state a step leads to. *)
DiagnosisAfter(t) ==
    checkWorktreeStatus(Git(agentsPresent', agents', registry', branches'), t, FALSE)

(* Process p returns from RecoverTask with this step. *)
RecoverTaskReturns(p) ==
    /\ last'.op = "RecoverTask"
    /\ last'.proc = p
    /\ pc'[p] = "idle"
    /\ \/ pc[p] = "idle" /\ last.op \in {"FindCorruptedTasks", "GetTask"}
       \/ pc[p] \in {"notingit_add", "invalidgit_add", "invalidgit_copy",
                     "invalidgit_rmbackup"}

(* C23: a call of RecoverTask returns success or an explicit error, never
   both and never neither; the step by which a repair recreates the working
   tree or returns success at once leaves a task that a fresh diagnosis
   finds healthy, and the steps of the repair after the recreation do not
   change what a diagnosis finds of a working tree that is in place. *)
C23_RepairedIsHealthy ==
    [][\A p \in Procs :
        /\ RecoverTaskReturns(p) =>
             /\ last'.ok <=> last'.err = ""
             /\ (last'.ok /\ pc[p] \in {"idle", "notingit_add"}) =>
                  DiagnosisAfter(last'.val) = ""
        /\ RepairMoves(p, "invalidgit_add", "invalidgit_copy") =>
             DiagnosisAfter(task[p]) = ""
        /\ (\/ RepairMoves(p, "invalidgit_copy", "invalidgit_rmbackup")
            \/ RepairMoves(p, "invalidgit_rmbackup", "idle")) =>
             /\ WorktreeExists(task[p].AgentDir) =>
                  DiagnosisAfter(task[p]) = checkWorktreeStatus(Now, task[p], FALSE)
             /\ pc'[p] = "idle" => last'.ok]_vars

(* A repair of an invalid marker has returned success and a diagnosis of
   the task finds it healthy. *)
C23_Witness ==
    /\ last.op = "RecoverTask"
    /\ last.ok
    /\ last.val.CorruptedReason = CorruptInvalidGit
    /\ checkWorktreeStatus(Now, last.val, FALSE) = ""

(* ------------------------------- C24 ----------------------------------- *)
(* C24: when a call of RecoverTask returns an error, every file that was
   under the working tree path or in its backup when the call began is
   still at one of the two, and the set of branches is the one the call
   found. *)
C24_FailedRepairNoWorse ==
    [][\A p \in Procs :
        (RecoverTaskReturns(p) /\ ~last'.ok) =>
            /\ last'.loc.before.files \subseteq OnDisk(agents', last'.val.AgentDir)
            /\ branches' = last'.loc.before.branches]_vars

(* ------------------------------- C25 ----------------------------------- *)
(* The statements of the repair of each kind, in their order. *)
RepairPcs(reason) ==
    IF reason = CorruptNotInGit
    THEN <<"idle", "notingit_prune", "notingit_add">>
    ELSE IF reason = CorruptInvalidGit
    THEN <<"idle", "invalidgit_prune", "invalidgit_add", "invalidgit_copy",
           "invalidgit_rmbackup">>
    ELSE <<"idle">>

(* A call of RecoverTask by p moves forward by one statement of the repair
   of the kind of its task, or returns. *)
RepairAdvances(p) ==
    LET t == IF pc[p] = "idle" THEN task'[p] ELSE task[p]
        steps == RepairPcs(t.CorruptedReason)
    IN \/ pc'[p] = "idle"
       \/ \E i \in 1..(Len(steps) - 1) : pc[p] = steps[i] /\ pc'[p] = steps[i + 1]

(* C25: a call of RecoverTask runs the statements of the repair of the
   recorded kind, each at most once and none of another kind; the error of
   a failed repair names the kind; and for a kind that is none of the four
   the call returns an error and changes neither the workspace nor the
   repository. *)
C25_OneRepairTypedError ==
    [][\A p \in Procs :
        /\ pc'[p] # pc[p] => RepairAdvances(p)
        /\ RecoverTaskReturns(p) =>
             LET reason == last'.val.CorruptedReason IN
             /\ ~last'.ok => ErrorKind(last'.err, reason) = reason
             /\ reason \notin {CorruptMissingWorktree, CorruptNotInGit,
                               CorruptInvalidGit, CorruptMissingBranch} =>
                  /\ ~last'.ok
                  /\ UNCHANGED <<agentsPresent, agents, registry, branches>>]_vars

(* ------------------------------- C26 ----------------------------------- *)
(* A call of FindMergedTasks returns; neither the review platform nor git
   failed for the tasks in question. *)
MergedReturns ==
    /\ last'.op = "FindMergedTasks"
    /\ last' # last
    /\ UNCHANGED <<agentsPresent, agents, registry, branches, windows>>

Landed(val, d) == \E t \in val : t.AgentDir = d

(* The task in directory d has a recorded review request that the review
   platform reports merged. *)
ReviewMerged(d) ==
    /\ LoadPRNumber(agents[d]) = PRNumber
    /\ agents[d].review = "merged"

(* C26: FindMergedTasks reports a task exactly when it has a recorded
   review request that the platform reports merged, or its branch exists
   and is merged into trunk; a failure of the review platform counts as
   not merged. *)
C26_LandedIffMerged ==
    [][MergedReturns =>
        \A d \in DOMAIN agents \ last'.loc.listFails :
            Landed(last'.val, d) <=>
                \/ ReviewMerged(d) /\ d \notin last'.loc.ghFails
                \/ d \in branches /\ agents[d].merged]_vars

(* ------------------------------- C27 ----------------------------------- *)
(* C27 as stated: a task whose branch was merged into trunk and then
   deleted is reported by FindMergedTasks. *)
C27_LandedAfterBranchDeleted ==
    [][MergedReturns =>
        \A d \in DOMAIN agents \ (last'.loc.listFails \cup last'.loc.ghFails) :
            (agents[d].merged /\ d \notin branches) => Landed(last'.val, d)]_vars

(* C27: a task whose branch no longer exists is reported by
   FindMergedTasks exactly when it has a recorded review request that the
   review platform reports merged. *)
C27_LandedAfterDeletionByReview ==
    [][MergedReturns =>
        \A d \in DOMAIN agents :
            d \notin branches =>
                (Landed(last'.val, d) <=>
                    ReviewMerged(d) /\ d \notin last'.loc.ghFails)]_vars

(* FindMergedTasks has reported a task whose merged branch is deleted. *)
C27_Witness ==
    /\ last.op = "FindMergedTasks"
    /\ \E d \in DOMAIN agents :
         /\ agents[d].merged
         /\ d \notin branches
         /\ Landed(last.val, d)

(* ======================= the backlog (QueueManager) ===================== *)
(* bounds *)
MaxEntries == 2
MaxLow == 2
MaxNumber == 1000
StartNumbers == {1, 999}
(* The numbers the runs explored give out: the first few, and those around
   the step from three digits to four. *)
Numbers == (1..MaxLow) \cup ((MaxNumber - 1)..MaxNumber)
Descriptions == {<<"a">>, <<"b">>}
StrayName == <<"n", "o", "t", "e", "s">>

QueueSuffix == ".task"

(* fmt.Sprintf("%03d", n): the decimal digits, padded with zeros on the
   left up to three characters, never cut. *)
RECURSIVE PadZero(_, _)
PadZero(s, width) ==
    IF Len(s) < width THEN PadZero(<<"0">> \o s, width) ELSE s

FileName(nextNum) == PadZero(Itoa(nextNum), 3) \o <<QueueSuffix>>

(* regexp ^(\d+)\.task$ and its first submatch. *)
Matches(name) ==
    /\ Len(name) >= 2
    /\ name[Len(name)] = QueueSuffix
    /\ \A k \in 1..(Len(name) - 1) : IsDigit(name[k])
Submatch(name) == SubSeq(name, 1, Len(name) - 1)

NilTask == [nil |-> TRUE, Number |-> 0, Path |-> <<>>, Content |-> <<>>]
QueuedTask(number, path, content) ==
    [nil |-> FALSE, Number |-> number, Path |-> path, Content |-> content]

(* os.ReadDir: the names in the directory, in an order the caller must not
   rely on. *)
ReadDir(q) ==
    LET names == DOMAIN q.files
    IN  {e \in [1..Cardinality(names) -> names] :
            \A n \in names : \E k \in 1..Cardinality(names) : e[k] = n}

(* The loop of List over the entries read. *)
RECURSIVE Collect(_, _)
Collect(q, entries) ==
    IF entries = <<>> THEN <<>>
    ELSE LET name == Head(entries)
             rest == Collect(q, Tail(entries))
         IN  IF ~Matches(name) THEN rest
             ELSE <<QueuedTask(Sscanf(Submatch(name)).val, name,
                               q.files[name])>> \o rest

(* sort.Slice(tasks, Number <): by insertion. *)
RECURSIVE Insert(_, _)
Insert(t, sorted) ==
    IF sorted = <<>> THEN <<t>>
    ELSE IF t.Number < Head(sorted).Number THEN <<t>> \o sorted
    ELSE <<Head(sorted)>> \o Insert(t, Tail(sorted))

RECURSIVE SortSlice(_)
SortSlice(tasks) ==
    IF tasks = <<>> THEN <<>>
    ELSE Insert(Head(tasks), SortSlice(Tail(tasks)))

ListUnsorted(q, entries) ==
    IF ~q.present THEN <<>> ELSE Collect(q, entries)

(* QueueManager.List: a missing directory is an empty backlog. *)
List(q, entries) ==
    IF ~q.present THEN <<>> ELSE SortSlice(Collect(q, entries))

getNextNumberByCount(tasks) == Len(tasks) + 1

getNextNumber(tasks) ==
    IF Len(tasks) = 0 THEN 1 ELSE tasks[Len(tasks)].Number + 1

(* os.WriteFile: creates the file or truncates the one that is there. *)
WriteFile(q, name, content) ==
    [q EXCEPT !.files = [n \in DOMAIN q.files \cup {name} |->
                            IF n = name THEN content ELSE q.files[n]]]

(* os.Remove of an entry file. *)
RemoveFile(q, name) ==
    [q EXCEPT !.files = [n \in DOMAIN q.files \ {name} |-> q.files[n]]]

QueueOnly ==
    UNCHANGED <<trunk, agentsPresent, agents, worktreeMode, registry, branches, task,
                held, windows>>

(* Add up to the file name: MkdirAll, then getNextNumber over a listing. *)
AddBegin(p, content) ==
    /\ pc[p] = "idle"
    /\ Cardinality(DOMAIN queue.files) <= MaxEntries
    /\ LET q == [queue EXCEPT !.present = TRUE]
       IN  \E entries \in ReadDir(q) :
              LET tasks == List(q, entries)
              IN  /\ getNextNumber(tasks) \in Numbers
                  /\ queue' = q
                  /\ loc' = [loc EXCEPT ![p] =
                               [NoLoc EXCEPT !.content = content,
                                             !.tasks = tasks,
                                             !.nextNum = getNextNumber(tasks)]]
    /\ pc' = [pc EXCEPT ![p] = "add_write"]
    /\ UNCHANGED last
    /\ QueueOnly

(* The rest of Add: the entry file is written under the name computed. *)
AddWrite(p) ==
    LET name == FileName(loc[p].nextNum)
    IN  /\ pc[p] = "add_write"
        /\ queue' = [WriteFile(queue, name, loc[p].content) EXCEPT
                       !.highest = IF loc[p].nextNum > @
                                   THEN loc[p].nextNum ELSE @]
        /\ Finish(p, Ret("Add", TRUE, "", NilTask),
                  [loc[p] EXCEPT !.tasks = <<>>])
        /\ QueueOnly

(* Pop up to the choice of the first task. *)
PopList(p) ==
    /\ pc[p] = "idle"
    /\ \E entries \in ReadDir(queue) :
          LET tasks == List(queue, entries)
              l == [NoLoc EXCEPT !.tasks = tasks]
          IN  IF Len(tasks) = 0
              THEN Finish(p, Ret("Pop", TRUE, "", NilTask), NoLoc)
              ELSE /\ pc' = [pc EXCEPT ![p] = "pop_remove"]
                   /\ loc' = [loc EXCEPT ![p] = l]
                   /\ UNCHANGED last
    /\ UNCHANGED queue
    /\ QueueOnly

(* The rest of Pop: os.Remove(first.Path), then the task read is returned. *)
PopRemove(p) ==
    LET first == loc[p].tasks[1]
    IN  /\ pc[p] = "pop_remove"
        /\ IF first.Path \in DOMAIN queue.files
           THEN /\ queue' = RemoveFile(queue, first.Path)
                /\ Finish(p, Ret("Pop", TRUE, "", first), NoLoc)
           ELSE /\ UNCHANGED queue
                /\ Finish(p, Ret("Pop", FALSE, "failed to remove queue task",
                                 NilTask), NoLoc)
        /\ QueueOnly

(* Clear up to its loop. *)
ClearList(p) ==
    /\ pc[p] = "idle"
    /\ \E entries \in ReadDir(queue) :
          LET tasks == List(queue, entries)
              l == [NoLoc EXCEPT !.tasks = tasks, !.i = 1]
          IN  IF Len(tasks) = 0
              THEN Finish(p, Ret("Clear", TRUE, "", NilTask), NoLoc)
              ELSE /\ pc' = [pc EXCEPT ![p] = "clear_remove"]
                   /\ loc' = [loc EXCEPT ![p] = l]
                   /\ UNCHANGED last
    /\ UNCHANGED queue
    /\ QueueOnly

(* One turn of the loop of Clear. *)
ClearRemove(p) ==
    LET t == loc[p].tasks[loc[p].i]
    IN  /\ pc[p] = "clear_remove"
        /\ IF t.Path \notin DOMAIN queue.files
           THEN /\ UNCHANGED queue
                /\ Finish(p, Ret("Clear", FALSE, "failed to remove queue task",
                                 NilTask), NoLoc)
           ELSE /\ queue' = RemoveFile(queue, t.Path)
                /\ IF loc[p].i = Len(loc[p].tasks)
                   THEN Finish(p, Ret("Clear", TRUE, "", NilTask), NoLoc)
                   ELSE /\ loc' = [loc EXCEPT ![p].i = @ + 1]
                        /\ UNCHANGED <<pc, last>>
        /\ QueueOnly

(* A backlog left by earlier runs: entries under the names Add gives, and
   possibly a file that is not an entry. *)
InitQueue ==
    /\ agentsPresent = FALSE
    /\ agents = NoAgents
    /\ worktreeMode = FALSE
    /\ registry = {}
    /\ branches = {}
    /\ pc = [p \in Procs |-> "idle"]
    /\ task = [p \in Procs |-> NoTask]
    /\ loc = [p \in Procs |-> NoLoc]
    /\ held = [p \in Procs |-> {}]
    /\ windows = {}
    /\ trunk = CleanTrunk
    /\ last = NoRet
    /\ \E present \in BOOLEAN, ns \in SUBSET StartNumbers,
          stray \in SUBSET {StrayName} :
          /\ ~present => ns = {} /\ stray = {}
          /\ \E f \in [{FileName(n) : n \in ns} \cup stray -> Descriptions] :
                /\ \A n \in stray : f[n] = <<"a">>
                /\ queue = [present |-> present, files |-> f,
                            highest |-> IF ns = {} THEN 0
                                        ELSE CHOOSE n \in ns :
                                                \A m \in ns : m <= n]

NextQueue ==
    \E p \in Procs :
       \/ \E content \in Descriptions : AddBegin(p, content)
       \/ AddWrite(p)
       \/ PopList(p)
       \/ PopRemove(p)
       \/ ClearList(p)
       \/ ClearRemove(p)

SpecQueue == InitQueue /\ [][NextQueue]_vars

(* ------------------------------- C28 ----------------------------------- *)
(* The entry numbers in the backlog q, and the call of process p running on
   a backlog that is as its listing found it. *)
EntryNumbers(q) ==
    {Sscanf(Submatch(n)).val : n \in {m \in DOMAIN q.files : Matches(m)}}
Undisturbed(p) == \E entries \in ReadDir(queue) : List(queue, entries) = loc[p].tasks

(* C28: a Pop that no other call interleaves with returns the entry with the
   lowest number whatever order the directory was read in and however wide the
   numbers are (999 before 1000), with the content that entry holds, and
   deletes that entry only, so that every entry left has a strictly greater
   number; an Add that no other call interleaves with gives its entry a
   number greater than every number in the backlog, so it is popped last;
   Pop on a backlog without entries returns (nil, nil) and changes nothing,
   and it is the only case in which Pop returns nil without an error. *)
C28_PopTakesLowest ==
    [][\A p \in Procs :
         /\ (pc[p] = "pop_remove" /\ pc'[p] = "idle" /\ Undisturbed(p)) =>
              /\ last'.op = "Pop" /\ last'.ok /\ ~last'.val.nil
              /\ last'.val.Path \in DOMAIN queue.files
              /\ last'.val.Number = Sscanf(Submatch(last'.val.Path)).val
              /\ last'.val.Content = queue.files[last'.val.Path]
              /\ \A n \in EntryNumbers(queue) : last'.val.Number <= n
              /\ \A n \in EntryNumbers(queue') : last'.val.Number < n
              /\ queue' = RemoveFile(queue, last'.val.Path)
         /\ (pc[p] = "add_write" /\ pc'[p] = "idle" /\ Undisturbed(p)) =>
              /\ \A n \in EntryNumbers(queue) : loc[p].nextNum > n
              /\ FileName(loc[p].nextNum) \notin DOMAIN queue.files
              /\ queue'.files = WriteFile(queue, FileName(loc[p].nextNum),
                                          loc[p].content).files
              /\ EntryNumbers(queue') = EntryNumbers(queue) \cup {loc[p].nextNum}
         /\ (pc[p] = "idle" /\ pc'[p] = "pop_remove") =>
              EntryNumbers(queue) # {}
         /\ (pc[p] = "idle" /\ pc'[p] = "idle" /\ last'.op = "Pop"
               /\ last'.proc = p /\ last' # last) =>
              /\ last'.ok /\ last'.err = "" /\ last'.val.nil
              /\ EntryNumbers(queue) = {}
              /\ queue' = queue]_vars

(* Pop has returned entry 999 while entry 1000 is still queued, from a
   directory that also holds a file that is not an entry. *)
C28_Witness ==
    /\ last.op = "Pop" /\ last.ok /\ ~last.val.nil
    /\ last.val.Number = 999
    /\ last.val.Path = <<"9", "9", "9", ".task">>
    /\ EntryNumbers(queue) = {1000}
    /\ StrayName \in DOMAIN queue.files

(* ------------------------------- C29 ----------------------------------- *)
(* A step in which process p computes the number of its entry, and one in
   which it writes the entry. *)
AddNumbers(p) == pc[p] = "idle" /\ pc'[p] = "add_write"
AddWrites(p) == pc[p] = "add_write" /\ pc'[p] = "idle"
Greatest(S) == CHOOSE n \in S : \A m \in S : m <= n

(* C29, as stated: the number an Add gives its entry is greater than every
   number given to an entry before, deleted entries included. *)
C29_NeverReused ==
    [][\A p \in Procs : AddWrites(p) => loc[p].nextNum > queue.highest]_vars

(* C29, amended: the number an Add gives its entry is one more than the
   greatest number among the entries in the backlog when Add lists it, and 1
   when the listing holds no entry; it is greater than the number of every
   entry listed, and the entry is written under the name that encodes it.
   Nothing records the numbers of deleted entries. *)
C29_NextAboveListed ==
    [][\A p \in Procs :
         /\ AddNumbers(p) =>
              /\ loc'[p].nextNum =
                   IF EntryNumbers(queue) = {} THEN 1
                   ELSE Greatest(EntryNumbers(queue)) + 1
              /\ \A k \in 1..Len(loc'[p].tasks) :
                    loc'[p].tasks[k].Number < loc'[p].nextNum
              /\ EntryNumbers(queue') = EntryNumbers(queue)
         /\ AddWrites(p) =>
              /\ FileName(loc[p].nextNum) \in DOMAIN queue'.files
              /\ Matches(FileName(loc[p].nextNum))
              /\ Sscanf(Submatch(FileName(loc[p].nextNum))).val = loc[p].nextNum
              /\ EntryNumbers(queue') =
                   EntryNumbers(queue) \cup {loc[p].nextNum}]_vars

(* Pop has just returned the only entry, and a sequential Add is about to
   write a new entry under the number of the entry popped. *)
C29_Witness ==
    \E p \in Procs :
       /\ pc[p] = "add_write"
       /\ \A o \in Procs \ {p} : pc[o] = "idle"
       /\ last.op = "Pop" /\ last.ok /\ ~last.val.nil
       /\ loc[p].nextNum = last.val.Number
       /\ loc[p].nextNum <= queue.highest

(* ------------------------------- C30 ----------------------------------- *)
(* C30: an Add that writes its entry creates a file that was not there and
   leaves the content of every entry already written as it was, so that
   after two Adds there are two entries more, each with the description it
   was given. *)
C30_WriteOnce ==
    [][\A p \in Procs :
         AddWrites(p) =>
            /\ FileName(loc[p].nextNum) \notin DOMAIN queue.files
            /\ \A n \in DOMAIN queue.files : queue'.files[n] = queue.files[n]
            /\ Cardinality(DOMAIN queue'.files) =
                 Cardinality(DOMAIN queue.files) + 1]_vars

(* ------------------------------- C31 ----------------------------------- *)
(* A step in which the Pop of process p removes a file and returns. *)
PopReturnsEntry(p) ==
    /\ pc[p] = "pop_remove" /\ pc'[p] = "idle"
    /\ last'.op = "Pop" /\ last'.ok /\ ~last'.val.nil

(* C31: the entry a Pop returns is the entry it deletes, under every
   interleaving: the file removed holds the description returned, so that no
   description is deleted without being returned and none is returned after
   its entry was deleted by another Pop; and Pop reports empty only when no
   entry is left. *)
C31_ConsumedExactlyOnce ==
    [][\A p \in Procs :
         /\ PopReturnsEntry(p) =>
              /\ last'.val.Path \in DOMAIN queue.files
              /\ last'.val.Content = queue.files[last'.val.Path]
              /\ queue' = RemoveFile(queue, last'.val.Path)
         /\ (pc[p] = "idle" /\ pc'[p] = "idle" /\ last'.op = "Pop"
               /\ last'.proc = p /\ last' # last /\ last'.ok) =>
              EntryNumbers(queue) = {}]_vars

(* ================= persisted fields of a Task, one by one =============== *)
(* The values saved: a description with blanks around it, a window id as
   tmux prints it and one with a line end, review numbers of either sign. *)
SavedContents == {<<"c1">>, <<" ", "c", "\n">>}
SavedWindowIDs == {<<"@", "1">>, <<"@", "1", "\n">>}
SavedPRNumbers == {0, PRNumber, 0 - 3}

(* Task.SaveContent: t.Content is set, then the task file is written. *)
SaveContent(p, content) ==
    LET d == task[p].AgentDir
        l == [NoLoc EXCEPT !.name = d]
    IN
    /\ pc[p] = "idle"
    /\ task[p] # NoTask
    /\ task' = [task EXCEPT ![p].Content = content]
    /\ IF DirExists(d)
       THEN /\ agents' = [agents EXCEPT ![d].content = content]
            /\ Finish(p, Ret("SaveContent", TRUE, "", NoTask), l)
       ELSE /\ UNCHANGED agents
            /\ Finish(p, Ret("SaveContent", FALSE, "no such file or directory", NoTask), l)
    /\ UNCHANGED <<trunk, queue, windows, agentsPresent, worktreeMode, registry, branches, held>>

TaskLoadContentTrimmed(p) ==
    LET d == task[p].AgentDir
        l == [NoLoc EXCEPT !.name = d]
        t == [task[p] EXCEPT !.Content = TrimSpace(agents[d].content)]
    IN
    /\ pc[p] = "idle"
    /\ task[p] # NoTask
    /\ IF DirExists(d) /\ agents[d].content \notin {NoFile, Unreadable}
       THEN /\ task' = [task EXCEPT ![p] = t]
            /\ Finish(p, Ret("LoadContent", TRUE, "", t), l)
       ELSE /\ UNCHANGED task
            /\ Finish(p, Ret("LoadContent", FALSE, "read failed", NoTask), l)
    /\ UNCHANGED <<trunk, queue, windows, agentsPresent, agents, worktreeMode, registry, branches, held>>

(* Task.LoadContent: the bytes of the task file, as they are. *)
TaskLoadContent(p) ==
    LET d == task[p].AgentDir
        l == [NoLoc EXCEPT !.name = d]
        t == [task[p] EXCEPT !.Content = agents[d].content]
    IN
    /\ pc[p] = "idle"
    /\ task[p] # NoTask
    /\ IF DirExists(d) /\ agents[d].content \notin {NoFile, Unreadable}
       THEN /\ task' = [task EXCEPT ![p] = t]
            /\ Finish(p, Ret("LoadContent", TRUE, "", t), l)
       ELSE /\ UNCHANGED task
            /\ Finish(p, Ret("LoadContent", FALSE, "read failed", NoTask), l)
    /\ UNCHANGED <<trunk, queue, windows, agentsPresent, agents, worktreeMode, registry, branches, held>>

(* Task.LoadWindowID: the window_id file with the blanks around it cut. *)
TaskLoadWindowID(p) ==
    LET d == task[p].AgentDir
        l == [NoLoc EXCEPT !.name = d]
        t == [task[p] EXCEPT !.WindowID = TrimSpace(agents[d].windowID)]
    IN
    /\ pc[p] = "idle"
    /\ task[p] # NoTask
    /\ IF DirExists(d) /\ agents[d].lock /\ agents[d].windowID # NoFile
       THEN /\ task' = [task EXCEPT ![p] = t]
            /\ Finish(p, Ret("LoadWindowID", TRUE, "", t), l)
       ELSE /\ UNCHANGED task
            /\ Finish(p, Ret("LoadWindowID", FALSE, "read failed", NoTask), l)
    /\ UNCHANGED <<trunk, queue, windows, agentsPresent, agents, worktreeMode, registry, branches, held>>

(* Task.LoadPRNumber: 0 without error when there is no .pr file; otherwise
   the number Sscanf reads from the trimmed file. *)
TaskLoadPRNumber(p) ==
    LET d == task[p].AgentDir
        l == [NoLoc EXCEPT !.name = d]
        scan == Sscanf(TrimSpace(agents[d].pr))
        t == [task[p] EXCEPT !.PRNumber = scan.val]
    IN
    /\ pc[p] = "idle"
    /\ task[p] # NoTask
    /\ IF ~DirExists(d) \/ agents[d].pr = NoFile
       THEN /\ UNCHANGED task
            /\ Finish(p, Ret("LoadPRNumber", TRUE, "", [task[p] EXCEPT !.PRNumber = 0]), l)
       ELSE IF scan.ok
       THEN /\ task' = [task EXCEPT ![p] = t]
            /\ Finish(p, Ret("LoadPRNumber", TRUE, "", t), l)
       ELSE /\ UNCHANGED task
            /\ Finish(p, Ret("LoadPRNumber", FALSE, "scan failed", NoTask), l)
    /\ UNCHANGED <<trunk, queue, windows, agentsPresent, agents, worktreeMode, registry, branches, held>>

(* One task directory, just made; every process can get the task, take and
   release its lock, and save and load each field. *)
InitFields ==
    /\ agentsPresent = TRUE
    /\ agents = [d \in OneName |-> EmptyDir]
    /\ worktreeMode = FALSE
    /\ registry = {}
    /\ branches = {}
    /\ pc = [p \in Procs |-> "idle"]
    /\ task = [p \in Procs |-> NoTask]
    /\ loc = [p \in Procs |-> NoLoc]
    /\ held = [p \in Procs |-> {}]
    /\ windows = {}
    /\ queue = NoQueue
    /\ trunk = CleanTrunk
    /\ last = NoRet

NextFields ==
    \E p \in Procs :
        \/ \E name \in OneName : GetTask(p, name)
        \/ CreateTabLock(p)
        \/ RemoveTabLock(p)
        \/ \E content \in SavedContents : SaveContent(p, content)
        \/ \E w \in SavedWindowIDs : SaveWindowID(p, w)
        \/ \E n \in SavedPRNumbers : SavePRNumber(p, n)
        \/ TaskLoadContent(p)
        \/ TaskLoadWindowID(p)
        \/ TaskLoadPRNumber(p)

SpecFields == InitFields /\ [][NextFields]_vars

(* ------------------------------- C32 ----------------------------------- *)
(* Process p loads a field right after its own successful save of it. *)
LoadsAfterSave(p, save, load) ==
    /\ last.op = save /\ last.ok /\ last.proc = p
    /\ last'.op = load /\ last'.proc = p

(* C32, as stated: each load that follows the save of the same field
   returns, without error, exactly the value that was written. *)
C32_RoundTripExact ==
    [][\A p \in Procs :
         /\ LoadsAfterSave(p, "SaveContent", "LoadContent") =>
              last'.ok /\ last'.val.Content = task[p].Content
         /\ LoadsAfterSave(p, "SaveWindowID", "LoadWindowID") =>
              last'.ok /\ last'.val.WindowID = task[p].WindowID
         /\ LoadsAfterSave(p, "SavePRNumber", "LoadPRNumber") =>
              last'.ok /\ last'.val.PRNumber = task[p].PRNumber]_vars

(* C32, amended: the content and the review number come back exactly as
   written; the window id comes back with the white space around it removed,
   so exactly as written when it has none. *)
C32_RoundTripTrimmed ==
    [][\A p \in Procs :
         /\ LoadsAfterSave(p, "SaveContent", "LoadContent") =>
              last'.ok /\ last'.val.Content = task[p].Content
                       /\ task'[p].Content = task[p].Content
         /\ LoadsAfterSave(p, "SaveWindowID", "LoadWindowID") =>
              /\ last'.ok
              /\ last'.val.WindowID = TrimSpace(task[p].WindowID)
              /\ (task[p].WindowID = <<"@", "1">>) =>
                    last'.val.WindowID = task[p].WindowID
         /\ LoadsAfterSave(p, "SavePRNumber", "LoadPRNumber") =>
              last'.ok /\ last'.val.PRNumber = task[p].PRNumber]_vars

(* All three fields have been saved, and the window id saved with a line end
   has been loaded without it. *)
C32_Witness ==
    \E d \in OneName :
       /\ DirExists(d)
       /\ agents[d].content = <<" ", "c", "\n">>
       /\ agents[d].pr = <<"-", "3">>
       /\ agents[d].windowID = <<"@", "1", "\n">>
       /\ last.op = "LoadWindowID" /\ last.ok
       /\ last.val.WindowID = <<"@", "1">>
       /\ last.val.Content = <<" ", "c", "\n">>
       /\ last.val.PRNumber = 0 - 3

(* ------------------------------- C33 ----------------------------------- *)
(* Process p, idle, makes the call op, which returns in this step. *)
Calls(p, op) ==
    /\ pc[p] = "idle" /\ pc'[p] = "idle"
    /\ last'.op = op /\ last'.proc = p /\ last' # last

(* C33: in every reachable state the window_id file of a task exists only if
   its lock directory exists: SaveWindowID on a task without lock directory
   fails and writes nothing, and RemoveTabLock leaves neither; and
   CreateTabLock on a task whose lock directory exists, with or without the
   window_id file, returns (false, nil) and changes nothing. *)
C33_WindowIDOnlyUnderLock ==
    /\ [](\A d \in DOMAIN agents : agents[d].windowID # NoFile => agents[d].lock)
    /\ [][\A p \in Procs :
            LET d == task[p].AgentDir IN
            /\ (Calls(p, "SaveWindowID") /\ ~(DirExists(d) /\ agents[d].lock)) =>
                  ~last'.ok /\ agents' = agents
            /\ (Calls(p, "RemoveTabLock") /\ DirExists(d)) =>
                  /\ last'.ok
                  /\ ~agents'[d].lock /\ agents'[d].windowID = NoFile
            /\ (Calls(p, "CreateTabLock") /\ DirExists(d) /\ agents[d].lock) =>
                  /\ ~last'.ok /\ last'.err = ""
                  /\ agents' = agents /\ held' = held]_vars

(* CreateTabLock has returned (false, nil) on a task whose lock directory
   holds the window_id file. *)
C33_Witness ==
    /\ last.op = "CreateTabLock" /\ ~last.ok /\ last.err = ""
    /\ DirExists(last.loc.name)
    /\ last.loc.seen.present
    /\ last.loc.seen.entry.lock
    /\ last.loc.seen.entry.windowID \in LockWindows
    /\ agents[last.loc.name].lock

(* ============================ handle-task =============================== *)
(* handle-task up to SetupWorktree: GetTask, then CreateTabLock; a lock that
   is already there ends the command without error. *)
HandleTask(p, name) ==
    LET r == GetTaskOf(p, agentsPresent, agents, name)
        l == [NoLoc EXCEPT !.name = name, !.caller = "handle-task"]
    IN
    /\ pc[p] = "idle"
    /\ IF ~r.ok
       THEN /\ Finish(p, Ret("handle-task", FALSE, r.err, NoTask), l)
            /\ UNCHANGED <<agents, task, held>>
       ELSE IF agents[name].lock
       THEN /\ Finish(p, Ret("handle-task", TRUE, "", r.val), l)
            /\ task' = [task EXCEPT ![p] = r.val]
            /\ UNCHANGED <<agents, held>>
       ELSE /\ agents' = [agents EXCEPT ![name].lock = TRUE]
            /\ held' = [held EXCEPT ![p] = @ \cup {name}]
            /\ task' = [task EXCEPT ![p] = r.val]
            /\ loc' = [loc EXCEPT ![p] = l]
            /\ pc' = [pc EXCEPT ![p] = IF worktreeMode THEN "setup_stash"
                                       ELSE "handle_window"]
            /\ UNCHANGED last
    /\ UNCHANGED <<trunk, queue, windows, agentsPresent, worktreeMode, registry,
                   branches>>

HandleUnlockSkipped(p) ==
    LET d == task[p].AgentDir IN
    /\ pc[p] = "handle_unlock"
    /\ held' = [held EXCEPT ![p] = @ \ {d}]
    /\ Finish(p, Ret("handle-task", FALSE,
                     IF loc[p].at = "window" THEN "failed to create window"
                     ELSE "failed to setup worktree", NoTask), loc[p])
    /\ UNCHANGED <<trunk, queue, windows, agents, agentsPresent, worktreeMode,
                   registry, branches, task>>

(* The error path of handle-task: RemoveTabLock, then the error is returned
   to the caller. *)
HandleUnlock(p) ==
    LET d == task[p].AgentDir IN
    /\ pc[p] = "handle_unlock"
    /\ agents' = IF DirExists(d)
                 THEN [agents EXCEPT ![d].lock = FALSE, ![d].windowID = NoFile]
                 ELSE agents
    /\ held' = [held EXCEPT ![p] = @ \ {d}]
    /\ Finish(p, Ret("handle-task", FALSE,
                     IF loc[p].at = "window" THEN "failed to create window"
                     ELSE "failed to setup worktree", NoTask), loc[p])
    /\ UNCHANGED <<trunk, queue, windows, agentsPresent, worktreeMode, registry,
                   branches, task>>

(* handle-task after the setup: NewWindow, then SaveWindowID. *)
HandleWindow(p) ==
    LET d == task[p].AgentDir
        w == WindowOf(d)
    IN
    /\ pc[p] = "handle_window"
    /\ \E fault \in BOOLEAN :
          IF fault
          THEN /\ pc' = [pc EXCEPT ![p] = "handle_unlock"]
               /\ loc' = [loc EXCEPT ![p].at = "window"]
               /\ UNCHANGED <<windows, agents, task, last>>
          ELSE /\ windows' = windows \cup {w}
               /\ task' = [task EXCEPT ![p].WindowID = w]
               /\ agents' = IF DirExists(d) /\ agents[d].lock
                            THEN [agents EXCEPT ![d].windowID = w] ELSE agents
               /\ Finish(p, Ret("handle-task", TRUE, "", task'[p]), loc[p])
    /\ UNCHANGED <<trunk, queue, agentsPresent, worktreeMode, registry, branches,
                   held>>

(* The user edits the trunk working tree. *)
ExternalEditTrunk ==
    /\ \E c \in SUBSET {TrackedFile}, u \in SUBSET {UntrackedFile} :
          trunk' = [changes |-> c, untracked |-> u]
    /\ trunk' # trunk
    /\ UNCHANGED <<queue, windows, agentsPresent, agents, worktreeMode, registry,
                   branches, pc, task, loc, held, last>>

(* A project with one task created and not yet handled, possibly with a
   branch of the task's name left from before, and a trunk that may hold
   uncommitted work. *)
InitSetup ==
    /\ agentsPresent = TRUE
    /\ agents = [d \in OneName |-> CreatedDir]
    /\ worktreeMode \in BOOLEAN
    /\ registry = {}
    /\ branches \in SUBSET OneName
    /\ pc = [p \in Procs |-> "idle"]
    /\ task = [p \in Procs |-> NoTask]
    /\ loc = [p \in Procs |-> NoLoc]
    /\ held = [p \in Procs |-> {}]
    /\ windows = {}
    /\ queue = NoQueue
    /\ \E c \in SUBSET {TrackedFile}, u \in SUBSET {UntrackedFile} :
          trunk = [changes |-> c, untracked |-> u]
    /\ last = NoRet

NextSetup ==
    \/ \E p \in Procs :
         \/ \E name \in OneName : HandleTask(p, name)
         \/ \E name \in OneName : GetTask(p, name)
         \/ SetupWorktree(p)
         \/ SetupStash(p)
         \/ SetupUntracked(p)
         \/ SetupAdd(p)
         \/ SetupApply(p)
         \/ SetupCopy(p)
         \/ HandleWindow(p)
         \/ HandleUnlock(p)
    \/ ExternalEditTrunk

SpecSetup == InitSetup /\ [][NextSetup]_vars

(* ------------------------------- C34 ----------------------------------- *)
(* Process p takes the step of SetupWorktree that leads from from to to. *)
SetupMoves(p, from, to) == pc[p] = from /\ pc'[p] = to
Listed(files) == {files[k] : k \in 1..Len(files)}
SetupPcs == {"setup_stash", "setup_untracked", "setup_add", "setup_apply",
             "setup_copy"}

(* C34: in worktree mode SetupWorktree takes the snapshot of the uncommitted
   trunk state, then the list of untracked files, then creates the working
   tree on a new branch named after the task, then applies the snapshot it
   took in the new tree, then copies the files it listed: both are taken
   before the tree exists and used only once it exists; no step of it changes
   the trunk working tree; outside worktree mode it returns nil and changes
   nothing. *)
C34_SetupOrder ==
    /\ [](\A p \in Procs : pc[p] \in SetupPcs => worktreeMode)
    /\ [][\A p \in Procs :
            LET d == task[p].AgentDir IN
            /\ SetupMoves(p, "setup_stash", "setup_untracked") =>
                  /\ loc'[p].stashHash \in {trunk.changes, {}}
                  /\ loc'[p].at = "stash"
                  /\ UNCHANGED <<trunk, agents, registry, branches>>
            /\ SetupMoves(p, "setup_untracked", "setup_add") =>
                  /\ Listed(loc'[p].untrackedFiles) \in {trunk.untracked, {}}
                  /\ loc'[p].stashHash = loc[p].stashHash
                  /\ loc[p].at = "stash"
                  /\ UNCHANGED <<trunk, agents, registry, branches>>
            /\ SetupMoves(p, "setup_add", "setup_apply") =>
                  /\ loc[p].at = "untracked"
                  /\ ~WorktreeExists(d)
                  /\ task[p].Name \notin branches
                  /\ branches' = branches \cup {task[p].Name}
                  /\ registry' = registry \cup {[path |-> d, branch |-> task[p].Name]}
                  /\ agents'[d].worktree /\ agents'[d].files = {}
                  /\ UNCHANGED <<trunk, loc[p].stashHash, loc[p].untrackedFiles>>
            /\ SetupMoves(p, "setup_apply", "setup_copy") =>
                  /\ WorktreeExists(d)
                  /\ agents'[d].files = agents[d].files \cup loc[p].stashHash
                  /\ UNCHANGED <<trunk, registry, branches>>
            /\ (pc[p] = "setup_copy" /\ pc'[p] # "setup_copy") =>
                  /\ WorktreeExists(d)
                  /\ agents'[d].files \subseteq
                        agents[d].files \cup Listed(loc[p].untrackedFiles)
                                        \cup {ClaudeLink}
                  /\ Listed(loc[p].untrackedFiles) \cap trunk.untracked
                        \subseteq agents'[d].files
                  /\ UNCHANGED <<trunk, registry, branches>>
            /\ (pc[p] \in SetupPcs /\ pc'[p] # pc[p]) =>
                  trunk' = trunk
            /\ (Calls(p, "SetupWorktree") /\ ~worktreeMode) =>
                  /\ last'.ok
                  /\ UNCHANGED <<trunk, agentsPresent, agents, registry, branches,
                                 windows, held, task>>]_vars

(* A setup has returned nil with the edited file and the untracked file of
   the trunk in the new tree, on the task's branch, the trunk as it was. *)
C34_Witness ==
    \E d \in OneName :
       /\ last.op = "SetupWorktree" /\ last.ok /\ last.loc.at = "apply"
       /\ last.loc.stashHash = {TrackedFile}
       /\ WorktreeExists(d)
       /\ agents[d].files = {TrackedFile, UntrackedFile, ClaudeLink}
       /\ d \in branches
       /\ trunk = [changes |-> {TrackedFile}, untracked |-> {UntrackedFile}]

(* ------------------------------- C35 ----------------------------------- *)
(* C35: when WorktreeAdd fails in SetupWorktree, the call returns the error
   "failed to create worktree" and takes no further step of the setup: a
   direct caller gets the error, and handle-task goes to its error path,
   opens no window, removes the lock directory it had created and returns
   "failed to setup worktree"; after that return the lock directory is absent
   and the process holds no lock, so the next CreateTabLock succeeds. *)
C35_FailedSetupReleasesLock ==
    [][\A p \in Procs :
         LET d == task[p].AgentDir IN
         /\ (pc[p] = "setup_add" /\ pc'[p] # "setup_apply" /\ pc'[p] # "setup_add") =>
               /\ agents'[d].files = agents[d].files
               /\ UNCHANGED <<trunk, windows>>
               /\ IF loc[p].caller = "handle-task"
                  THEN pc'[p] = "handle_unlock" /\ loc'[p].at # "window"
                  ELSE /\ pc'[p] = "idle"
                       /\ last'.op = "SetupWorktree" /\ ~last'.ok
                       /\ last'.err = "failed to create worktree"
         /\ (pc[p] = "handle_unlock" /\ loc[p].at # "window") =>
               (pc'[p] # pc[p] =>
                  /\ pc'[p] = "idle"
                  /\ last'.op = "handle-task" /\ ~last'.ok /\ last'.proc = p
                  /\ last'.err = "failed to setup worktree"
                  /\ DirExists(d) /\ ~agents'[d].lock
                  /\ agents'[d].windowID = NoFile
                  /\ d \notin held'[p]
                  /\ agents'[d].files = agents[d].files
                  /\ UNCHANGED <<trunk, windows, registry, branches>>)
         /\ (pc[p] = "idle" /\ pc'[p] \in {"setup_stash", "handle_window"}
               /\ loc'[p].caller = "handle-task") =>
               /\ ~agents[loc'[p].name].lock
               /\ agents'[loc'[p].name].lock
               /\ loc'[p].name \in held'[p]]_vars

(* handle-task has failed in the setup and given its lock back, and the next
   trigger has taken the lock and is in its own setup. *)
C35_Witness ==
    \E p \in Procs : \E d \in OneName :
       /\ last.op = "handle-task" /\ ~last.ok
       /\ last.err = "failed to setup worktree"
       /\ last.proc # p
       /\ pc[p] = "setup_stash" /\ loc[p].caller = "handle-task"
       /\ agents[d].lock /\ d \in held[p]
       /\ held[last.proc] = {}

(* ============================ WaitForReady ============================== *)
ClaudeReadyMaxAttempts == 60

(* What tmux capture-pane may print, as tokens; RunWithOutput trims it. *)
PaneContents ==
    {<<"starting">>, <<"Do you ", "trust", " this folder?">>, <<"\n", "<box corner>", "\n">>,
     <<">", " ">>, <<" ", "\n">>}

(* ReadyPatterns, with <box corner> for the two box-drawing characters:
   (?i)(Trust|trust|bypass permissions|<box corner>|^> $), where ^ and $
   are the ends of the whole text. *)
ReadyPatterns(content) ==
    \/ \E k \in 1..Len(content) :
          content[k] \in {"trust", "Trust", "TRUST", "bypass permissions", "<box corner>"}
    \/ content = <<">", " ">>

(* A call of WaitForReady starts; the polls of different callers share
   nothing, so one caller at a time is followed. *)
WaitForReady(p) ==
    /\ pc[p] = "idle"
    /\ \A o \in Procs : pc[o] = "idle"
    /\ pc' = [pc EXCEPT ![p] = "wait_capture"]
    /\ loc' = [loc EXCEPT ![p] = NoLoc]
    /\ UNCHANGED <<trunk, queue, windows, agentsPresent, agents, worktreeMode,
                   registry, branches, task, held, last>>

WaitCaptureUnbounded(p) ==
    /\ pc[p] = "wait_capture"
    /\ \E fails \in BOOLEAN, printed \in PaneContents :
          LET content == TrimSpace(printed)
              l == [loc[p] EXCEPT !.i = IF @ < ClaudeReadyMaxAttempts + 1
                                         THEN @ + 1 ELSE @,
                                  !.content = content]
          IN  IF fails
              THEN Finish(p, Ret("WaitForReady", FALSE, "failed to capture pane",
                                 NoTask), [l EXCEPT !.content = <<>>])
              ELSE IF ReadyPatterns(content)
              THEN Finish(p, Ret("WaitForReady", TRUE, "", NoTask), l)
              ELSE /\ loc' = [loc EXCEPT ![p] = [l EXCEPT !.content = <<>>]]
                   /\ UNCHANGED <<pc, last>>
    /\ UNCHANGED <<trunk, queue, windows, agentsPresent, agents, worktreeMode,
                   registry, branches, task, held>>

(* One turn of the loop, or the return after it: loc.i counts the captures
   made. *)
WaitCapture(p) ==
    /\ pc[p] = "wait_capture"
    /\ IF loc[p].i >= ClaudeReadyMaxAttempts
       THEN Finish(p, Ret("WaitForReady", FALSE,
                          "timeout waiting for Claude to be ready", NoTask), loc[p])
       ELSE \E fails \in BOOLEAN, printed \in PaneContents :
               LET content == TrimSpace(printed)
                   l == [loc[p] EXCEPT !.i = @ + 1, !.content = content]
               IN  IF fails
                   THEN Finish(p, Ret("WaitForReady", FALSE,
                                      "failed to capture pane", NoTask),
                               [l EXCEPT !.content = <<>>])
                   ELSE IF ReadyPatterns(content)
                   THEN Finish(p, Ret("WaitForReady", TRUE, "", NoTask), l)
                   ELSE /\ loc' = [loc EXCEPT ![p] = [l EXCEPT !.content = <<>>]]
                        /\ UNCHANGED <<pc, last>>
    /\ UNCHANGED <<trunk, queue, windows, agentsPresent, agents, worktreeMode,
                   registry, branches, task, held>>

NextWait == \E p \in Procs : WaitForReady(p) \/ WaitCapture(p)

SpecWait == InitNoGit /\ [][NextWait]_vars

(* Every capture returns and the sleep ends: the loop keeps turning. *)
SpecWaitFair == SpecWait /\ \A p \in Procs : WF_vars(WaitCapture(p))

(* ------------------------------- C36 ----------------------------------- *)
(* C36: a call of WaitForReady captures the pane at most
   ClaudeReadyMaxAttempts times; the capture that fails ends it at once with
   an error, the first capture that matches the ready pattern ends it with
   nil, the timeout error is returned exactly when that many captures were
   made and none matched; and every call returns. *)
C36_PollingBounded ==
    /\ [](\A p \in Procs : loc[p].i <= ClaudeReadyMaxAttempts)
    /\ [][\A p \in Procs :
            (pc[p] = "wait_capture" /\ pc'[p] = "idle") =>
               /\ last'.op = "WaitForReady" /\ last'.proc = p
               /\ last'.loc.i <= ClaudeReadyMaxAttempts
               /\ last'.ok <=> ReadyPatterns(last'.loc.content)
               /\ last'.ok => last'.loc.i = loc[p].i + 1
               /\ (last'.err = "failed to capture pane") =>
                     last'.loc.i = loc[p].i + 1
               /\ (last'.err = "timeout waiting for Claude to be ready") <=>
                     (loc[p].i = ClaudeReadyMaxAttempts /\ last'.loc.i = loc[p].i)
               /\ ~last'.ok => last'.err # ""]_vars
    /\ [][\A p \in Procs :
            (pc[p] = "wait_capture" /\ pc'[p] = "wait_capture"
               /\ loc'[p] # loc[p]) =>
               loc'[p].i = loc[p].i + 1 /\ loc[p].i < ClaudeReadyMaxAttempts]_vars
    /\ \A p \in Procs : (pc[p] = "wait_capture") ~> (pc[p] = "idle")

(* The timeout error has been returned after sixty captures without a
   match. *)
C36_Witness ==
    /\ last.op = "WaitForReady" /\ ~last.ok
    /\ last.err = "timeout waiting for Claude to be ready"
    /\ last.loc.i = ClaudeReadyMaxAttempts

(* ========================= FindIncompleteTasks ========================== *)
(* The ids FindIncompleteTasks takes as active: those ListWindows returns,
   none when the listing fails. *)
activeWindowIDs(wins, fails) == IF fails THEN {} ELSE wins

(* What FindIncompleteTasks returns over the disk (present, ag) and the
   open windows: of the tasks ListTasks returns, those with a lock directory
   whose window_id cannot be loaded or names no active window. *)
FindIncompleteOf(p, present, ag, wins, fails) ==
    LET tasks == IF present THEN ListResult(p, DOMAIN ag, present, ag).val ELSE {}
        active == activeWindowIDs(wins, fails)
        incomplete ==
            {t \in tasks :
                /\ ag[t.AgentDir].lock
                /\ \/ ag[t.AgentDir].windowID = NoFile
                   \/ TrimSpace(ag[t.AgentDir].windowID) \notin active}
    IN  {[t EXCEPT !.Status = StatusPending] : t \in incomplete}

FindIncompleteTasks(p) ==
    /\ pc[p] = "idle"
    /\ \E fails \in BOOLEAN :
          Finish(p, Ret("FindIncompleteTasks", TRUE, "",
                        FindIncompleteOf(p, agentsPresent, agents, windows, fails)),
                 [NoLoc EXCEPT !.seenAll = agents, !.wins = windows,
                               !.faults = IF fails THEN {"list-windows"} ELSE {}])
    /\ UNCHANGED <<trunk, queue, windows, agentsPresent, agents, worktreeMode,
                   registry, branches, task, held>>

(* $(cat file): command substitution drops the line ends at the end. *)
RECURSIVE StripLineEnds(_)
StripLineEnds(s) ==
    IF s # <<>> /\ s[Len(s)] = "\n" THEN StripLineEnds(SubSeq(s, 1, Len(s) - 1))
    ELSE s

(* The shell find_incomplete_tasks: the directories with a lock directory
   and a window_id file whose content is no line of tmux list-windows; a
   failing tmux prints nothing. *)
find_incomplete_tasks(present, ag, wins, fails) ==
    IF ~present THEN {}
    ELSE {d \in DOMAIN ag :
            /\ ag[d].lock
            /\ ag[d].windowID # NoFile
            /\ ~\E w \in (IF fails THEN {} ELSE wins) :
                   w = StripLineEnds(ag[d].windowID)}

(* Two tasks that handle-task starts, whose windows are closed from outside
   and whose task file may become unreadable, under the detection. *)
InitIncomplete ==
    /\ agentsPresent = TRUE
    /\ agents = [d \in GitNames |-> CreatedDir]
    /\ worktreeMode = FALSE
    /\ registry = {}
    /\ branches = {}
    /\ pc = [p \in Procs |-> "idle"]
    /\ task = [p \in Procs |-> NoTask]
    /\ loc = [p \in Procs |-> NoLoc]
    /\ held = [p \in Procs |-> {}]
    /\ windows = {}
    /\ queue = NoQueue
    /\ trunk = CleanTrunk
    /\ last = NoRet

NextIncomplete ==
    \/ \E p \in Procs :
         \/ \E name \in GitNames : HandleTask(p, name)
         \/ HandleWindow(p)
         \/ HandleUnlock(p)
         \/ FindIncompleteTasks(p)
    \/ \E w \in windows : ExternalCloseWindow(w)
    \/ \E d \in DOMAIN agents : CorruptContent(d)

SpecIncomplete == InitIncomplete /\ [][NextIncomplete]_vars

(* ------------------------------- C37 ----------------------------------- *)
(* The directories of the tasks the last FindIncompleteTasks returned. *)
Returned == {t.AgentDir : t \in last.val}

(* C37: FindIncompleteTasks returns a task if and only if its lock directory
   exists and either no window_id file can be read or the recorded id is not
   among the open windows; with a failing window listing every locked task
   is returned; and the shell find_incomplete_tasks selects the same
   directories on the same disk. *)
C37_IncompleteAgrees ==
    last.op = "FindIncompleteTasks" =>
       LET ag == last.loc.seenAll
           fails == last.loc.faults # {}
           active == IF fails THEN {} ELSE last.loc.wins
       IN  /\ Returned =
                {d \in DOMAIN ag :
                    /\ ag[d].lock
                    /\ \/ ag[d].windowID = NoFile
                       \/ TrimSpace(ag[d].windowID) \notin active}
           /\ \A d \in DOMAIN ag : ~ag[d].lock => d \notin Returned
           /\ fails => Returned = {d \in DOMAIN ag : ag[d].lock}
           /\ Returned = find_incomplete_tasks(TRUE, ag, last.loc.wins, fails)

(* The same without the two cases where it fails: the tasks whose task file
   can be read, and the agreement with the shell only where every locked
   task has a window_id file. *)
C37_AgreesWhereRecorded ==
    last.op = "FindIncompleteTasks" =>
       LET ag == last.loc.seenAll
           fails == last.loc.faults # {}
           active == IF fails THEN {} ELSE last.loc.wins
           readable == {d \in DOMAIN ag : ag[d].content # Unreadable}
       IN  /\ Returned =
                {d \in readable :
                    /\ ag[d].lock
                    /\ \/ ag[d].windowID = NoFile
                       \/ TrimSpace(ag[d].windowID) \notin active}
           /\ (readable = DOMAIN ag
                 /\ \A d \in DOMAIN ag : ag[d].lock => ag[d].windowID # NoFile) =>
                 Returned = find_incomplete_tasks(TRUE, ag, last.loc.wins, fails)

(* ================== teardown next to other live tasks =================== *)
(* Task fix-login is handled and live; a second CreateTask for the same name
   is given directory fix-login-1; either Task, as CreateTask returned it or
   as GetTask loads it, is torn down, while the working tree of a task may
   be deleted or lose its registration from outside. *)
NextFrame ==
    \/ \E p \in Procs :
         \/ CreateTaskBegin(p, MaxTasks, {TRUE}, OneName)
         \/ CreateTaskMkdir(p)
         \/ CreateTaskSave(p)
         \/ \E name \in GitNames : GetTask(p, name)
         \/ CleanupTask(p)
         \/ CleanupPrune(p)
         \/ CleanupBranch(p)
         \/ CleanupRemove(p)
         \/ Exit(p)
    \/ \E d \in GitNames :
         \/ ExternalRemoveTree(d)
         \/ ExternalUnregister(d)

SpecFrame == InitGitWith(OneName, OneName) /\ [][NextFrame]_vars

(* ------------------------------- C38 ----------------------------------- *)
(* A step of the CleanupTask that process p runs. *)
CleanupMoves(p) ==
    /\ pc'[p] # pc[p] \/ (last' # last /\ last'.proc = p)
    /\ \/ pc[p] \in {"cleanup_prune", "cleanup_branch", "cleanup_record"}
       \/ pc'[p] = "cleanup_prune"
       \/ pc[p] = "idle" /\ last'.op = "CleanupTask"

(* Directory d keeps its record, its working tree and its branch. *)
Untouched(d) ==
    /\ d \in DOMAIN agents'
    /\ agents'[d] = agents[d]
    /\ d \in branches => d \in branches'

(* C38: no step of CleanupTask(T) changes the task directory, the working
   tree or the branch of a task other than T, whichever Task value T is:
   also the one CreateTask returned for directory fix-login-1 while task
   fix-login is live. *)
C38_CleanupFrame ==
    [][\A p \in Procs :
         CleanupMoves(p) =>
            \A d \in DOMAIN agents \ {task[p].AgentDir} : Untouched(d)]_vars

(* The same for a Task whose Name is the name of its directory, as GetTask
   builds it. *)
C38_FrameOfLoadedTask ==
    [][\A p \in Procs :
         (CleanupMoves(p) /\ task[p].Name = task[p].AgentDir) =>
            \A d \in DOMAIN agents \ {task[p].AgentDir} : Untouched(d)]_vars

(* ------------------------------- C39 ----------------------------------- *)
(* The repair RecoverTask runs for this cause begins with os.RemoveAll of
   the working tree directory. *)
RepairDeletes(reason) == reason = CorruptNotInGit

(* C39: a sweep reports UnregisteredWorkspace for a task only if the listing
   of git's registry succeeded for it and the registry does not hold its
   working tree; a task for which the listing failed gets no cause whose
   repair deletes the working tree directory. *)
C39_ListingFailureSpared ==
    [][SweepReturns =>
          \A t \in last'.val :
             /\ t.CorruptedReason = CorruptNotInGit =>
                  /\ t.AgentDir \notin last'.loc.listFails
                  /\ ~Registered(registry, t.AgentDir)
             /\ t.AgentDir \in last'.loc.listFails =>
                  ~RepairDeletes(t.CorruptedReason)]_vars

(* Where the listing succeeded: UnregisteredWorkspace is reported only for a
   working tree that the registry does not hold. *)
C39_UnregisteredWhenListed ==
    [][SweepReturns =>
          \A t \in last'.val :
             (t.CorruptedReason = CorruptNotInGit
                /\ t.AgentDir \notin last'.loc.listFails) =>
                  ~Registered(registry, t.AgentDir)]_vars

(* =============== completion detection of a task just set up ============= *)
(* One task, created and not yet handled, in worktree mode and without a
   branch of its name: handle-task sets it up; nobody ever commits on its
   branch and no review request is ever merged, while the agent may open a
   review request and the working tree may be deleted or lose its
   registration from outside. *)
InitLanded == InitSetup /\ worktreeMode /\ branches = {}

NextLanded ==
    \/ \E p \in Procs :
         \/ \E name \in OneName : HandleTask(p, name)
         \/ SetupStash(p)
         \/ SetupUntracked(p)
         \/ SetupAdd(p)
         \/ SetupApply(p)
         \/ SetupCopy(p)
         \/ HandleWindow(p)
         \/ HandleUnlock(p)
         \/ FindMergedTasks(p)
    \/ \E d \in OneName :
         \/ ExternalOpenPR(d)
         \/ ExternalRemoveTree(d)
         \/ ExternalUnregister(d)

SpecLanded == InitLanded /\ [][NextLanded]_vars

(* ------------------------------- C40 ----------------------------------- *)
(* C40: where no task branch carries a commit of its own and no review
   request was merged, FindMergedTasks reports no task as landed. *)
C40_FreshBranchNotLanded ==
    last.op = "FindMergedTasks" => last.val = {}

(* While the branch that SetupWorktree made is checked out in a registered
   working tree, the task is not reported. *)
C40_NotLandedWhileCheckedOut ==
    [][(last'.op = "FindMergedTasks" /\ pc' = pc /\ agents' = agents
          /\ registry' = registry) =>
          \A t \in last'.val : ~CheckedOut(registry, t.Name)]_vars


====
